---- MODULE Spec2Model ----
(***************************************************************************)
(* Model of augment-vip: the store cleaners (db_cleaner.py), the GUI core  *)
(* (core_functions.py), the multi-IDE modifier (multi_ide_modifier.py) and *)
(* the command-line orchestrator (cli.py).                                 *)
(*                                                                         *)
(* Strings are sequences of ASCII codes, so that lower(), base64 decoding, *)
(* substring search and SQL LIKE are computed, not assumed.                *)
(***************************************************************************)
EXTENDS Integers, Sequences, FiniteSets, TLC

(***************************************************************************)
(* Strings                                                                 *)
(***************************************************************************)
\* the element of a singleton set.  Only({F(x) : x \in {e}}) computes e once
\* and hands its value to F.
Only(S) == CHOOSE x \in S : TRUE

IsUpperCh(c) == c >= 65 /\ c <= 90
IsLowerCh(c) == c >= 97 /\ c <= 122

LowerCh(c) == IF IsUpperCh(c) THEN c + 32 ELSE c
UpperCh(c) == IF IsLowerCh(c) THEN c - 32 ELSE c

\* str.lower()
Lower(str) == Only({[i \in 1..Len(s) |-> LowerCh(s[i])] : s \in {str}})
\* str.upper()
Upper(str) == Only({[i \in 1..Len(s) |-> UpperCh(s[i])] : s \in {str}})
\* str.capitalize(): first character upper-cased, the rest lower-cased
Capitalize(str) ==
  Only({[i \in 1..Len(s) |-> IF i = 1 THEN UpperCh(s[i]) ELSE LowerCh(s[i])] : s \in {str}})

\* Python's `needle in hay` on str
Contains(hay, needle) ==
  \E h \in {hay}, nd \in {needle} :
     \E i \in 0..(Len(h) - Len(nd)) :
        \A j \in 1..Len(nd) : h[i + j] = nd[j]

\* list(dict.fromkeys(seq)): order of first appearance, duplicates dropped
DedupKeepFirst(seq) ==
  Only({[k \in 1..Cardinality(keep) |->
           s[CHOOSE i \in keep : Cardinality({j \in keep : j <= i}) = k]] :
        <<s, keep>> \in {<<s0, {i \in 1..Len(s0) : \A j \in 1..(i - 1) : s0[j] # s0[i]}>> :
                            s0 \in {seq}}})

\* the concatenation of a sequence of sequences (list.extend in a loop)
RECURSIVE Flatten(_)
Flatten(ss) ==
  Only({IF s = <<>> THEN <<>> ELSE Head(s) \o Flatten(Tail(s)) : s \in {ss}})

(***************************************************************************)
(* base64.b64decode(...).decode('utf-8') on ASCII input.                   *)
(* A result is [ok |-> TRUE, val |-> bytes] or [ok |-> FALSE] when         *)
(* binascii.Error / UnicodeDecodeError would be raised.  61 is '='.        *)
(***************************************************************************)
B64Val(c) ==
  IF IsUpperCh(c) THEN c - 65
  ELSE IF IsLowerCh(c) THEN c - 97 + 26
  ELSE IF c >= 48 /\ c <= 57 THEN c - 48 + 52
  ELSE IF c = 43 THEN 62
  ELSE IF c = 47 THEN 63
  ELSE -1

\* one quantum of four characters -> up to three bytes
B64Quantum(quantum) ==
  Only({LET v1 == B64Val(q[1])
            v2 == B64Val(q[2])
            v3 == B64Val(q[3])
            v4 == B64Val(q[4])
            b1 == v1 * 4 + (v2 \div 16)
            b2 == (v2 % 16) * 16 + (v3 \div 4)
            b3 == (v3 % 4) * 64 + v4
        IN IF q[3] = 61 /\ q[4] = 61 THEN <<b1>>
           ELSE IF q[4] = 61 THEN <<b1, b2>>
           ELSE <<b1, b2, b3>> : q \in {quantum}})

B64WellFormed(str) ==
  \E s \in {str} :
     /\ Len(s) % 4 = 0
     /\ \A i \in 1..Len(s) :
           \/ B64Val(s[i]) >= 0
           \/ /\ s[i] = 61
              /\ i >= Len(s) - 1
              /\ (i = Len(s) - 1 => s[Len(s)] = 61)

RECURSIVE B64Bytes(_)
B64Bytes(str) ==
  Only({IF s = <<>> THEN <<>>
        ELSE B64Quantum(SubSeq(s, 1, 4)) \o B64Bytes(SubSeq(s, 5, Len(s))) :
        s \in {str}})

B64Decode(str) ==
  Only({IF ~B64WellFormed(s) THEN [ok |-> FALSE, val |-> <<>>]
        ELSE Only({IF \A i \in 1..Len(bytes) : bytes[i] < 128
                   THEN [ok |-> TRUE, val |-> bytes]
                   ELSE [ok |-> FALSE, val |-> <<>>] : bytes \in {B64Bytes(s)}}) :
        s \in {str}})

(***************************************************************************)
(* utils.py: the encoded seeds and the term codec                          *)
(***************************************************************************)
\* "YXVnbWVudA==", "QXVnbWVudA==", "QVVHTUVOQA=="
ENCODED_TERMS ==
  << <<89, 88, 86, 110, 98, 87, 86, 117, 100, 65, 61, 61>>,
     <<81, 88, 86, 110, 98, 87, 86, 117, 100, 65, 61, 61>>,
     <<81, 86, 86, 72, 84, 85, 86, 79, 81, 65, 61, 61>> >>

\* values of _CONFIG_KEYS in insertion order:
\* db_pattern_a, db_pattern_b, db_pattern_c, legacy_key_1, legacy_key_2
CONFIG_KEYS ==
  << <<89, 88, 86, 110, 98, 87, 86, 117, 100, 65, 61, 61>>,
     <<81, 88, 86, 110, 98, 87, 86, 117, 100, 65, 61, 61>>,
     <<81, 86, 86, 72, 84, 85, 86, 79, 81, 65, 61, 61>>,
     <<89, 88, 86, 110, 98, 87, 86, 117, 100, 72, 77, 61>>,
     <<89, 88, 86, 110, 98, 87, 86, 117, 100, 71, 86, 107>> >>

SuffixS   == <<115>>
SuffixEd  == <<101, 100>>
SuffixIng == <<105, 110, 103>>
SuffixVIP == <<86, 73, 80>>
SuffixUnderscore == <<95>>

\* the four case variants appended for one seed; nothing when decoding raises
SeedVariants(encoded_term) ==
  Only({IF d.ok
        THEN << d.val, Lower(d.val), Upper(d.val), Capitalize(d.val) >>
        ELSE <<>> : d \in {B64Decode(encoded_term)}})

\* the derived forms without the upper-cased one
DerivedForms_NoUpperForm(term) ==
  Only({IF Len(base_term) > 3
        THEN << base_term \o SuffixS,
                base_term \o SuffixEd,
                base_term \o SuffixIng,
                Capitalize(base_term) \o SuffixVIP >>
        ELSE <<>> : base_term \in {term}})

\* the five derived forms of one lower-cased base term
DerivedForms(term) ==
  Only({IF Len(base_term) > 3
        THEN << base_term \o SuffixS,
                base_term \o SuffixEd,
                base_term \o SuffixIng,
                Capitalize(base_term) \o SuffixVIP,
                Upper(base_term) \o SuffixUnderscore >>
        ELSE <<>> : base_term \in {term}})

\* _decode_search_terms without the try/except around each seed: one seed that
\* does not decode ends the whole call with nothing
DecodeTerms_FailWhole(config_keys, encoded_terms) ==
  IF \E i \in 1..Len(config_keys \o encoded_terms) :
        ~B64Decode((config_keys \o encoded_terms)[i]).ok
  THEN <<>>
  ELSE
  Only({Only({DedupKeepFirst(
                 terms \o Flatten([i \in 1..Len(base_terms) |-> DerivedForms(base_terms[i])])) :
              base_terms \in {DedupKeepFirst([i \in 1..Len(terms) |-> Lower(terms[i])])}}) :
        terms \in {Flatten([i \in 1..Len(config_keys) |-> SeedVariants(config_keys[i])])
                   \o Flatten([i \in 1..Len(encoded_terms) |-> SeedVariants(encoded_terms[i])])}})

\* _decode_search_terms over given seed lists.  base_terms is a Python set;
\* its iteration order is taken here as order of first appearance.
DecodeTerms(config_keys, encoded_terms) ==
  Only({Only({DedupKeepFirst(
                 terms \o Flatten([i \in 1..Len(base_terms) |-> DerivedForms(base_terms[i])])) :
              base_terms \in {DedupKeepFirst([i \in 1..Len(terms) |-> Lower(terms[i])])}}) :
        terms \in {Flatten([i \in 1..Len(config_keys) |-> SeedVariants(config_keys[i])])
                   \o Flatten([i \in 1..Len(encoded_terms) |-> SeedVariants(encoded_terms[i])])}})

decode_search_terms == DecodeTerms(CONFIG_KEYS, ENCODED_TERMS)

get_search_terms == decode_search_terms

\* _check_term_match comparing the text as it is with the lowered terms
check_term_match_TextAsIs(text, terms) ==
  \E txt \in {text}, ts \in {terms} :
     IF txt = <<>> THEN FALSE
     ELSE \E i \in 1..Len(ts) : Contains(txt, Lower(ts[i]))

\* _check_term_match(text, terms)
check_term_match(text, terms) ==
  \E txt \in {text}, ts \in {terms} :
     IF txt = <<>> THEN FALSE
     ELSE \E text_lower \in {Lower(txt)} :
             \E i \in 1..Len(ts) : Contains(text_lower, Lower(ts[i]))

(***************************************************************************)
(* SQLite: `key LIKE pattern` (ASCII case-insensitive; % (37) any run,     *)
(* _ (95) any single character)                                            *)
(***************************************************************************)
RECURSIVE Like(_, _)
Like(str, pattern) ==
  \E s \in {str}, pat \in {pattern} :
     IF pat = <<>> THEN s = <<>>
     ELSE IF Head(pat) = 37
          THEN Like(s, Tail(pat)) \/ (s # <<>> /\ Like(Tail(s), pat))
          ELSE /\ s # <<>>
               /\ (Head(pat) = 95 \/ LowerCh(Head(pat)) = LowerCh(Head(s)))
               /\ Like(Tail(s), Tail(pat))

\* f"key LIKE '%{term}%'"
LikePattern(term) == <<37>> \o term \o <<37>>

\* where_clause of db_cleaner: " OR ".join(conditions)
WhereClauseSelects(key, terms) ==
  \E k \in {key}, ts \in {terms} :
     \E i \in 1..Len(ts) : Like(k, LikePattern(ts[i]))

\* the literal 'augment' of "... WHERE key LIKE '%augment%'"
AugmentLiteral == <<97, 117, 103, 109, 101, 110, 116>>

FixedQuerySelects(key) == Like(key, LikePattern(AugmentLiteral))

(***************************************************************************)
(* The file system.  A path is <<name, n>>: the file `name` followed by n  *)
(* ".backup" suffixes.  A content is a record with a `kind`; two contents  *)
(* are byte-identical iff they are equal.  `form` tells the writer of the  *)
(* bytes apart: "ide" for the application's own serialisation, "etree" /   *)
(* "dump" for ElementTree's and json.dump's.                               *)
(***************************************************************************)
DB   == <<"state.vscdb", 0>>
XML1 == <<"other.xml", 0>>
XML2 == <<"ide.general.xml", 0>>
JSON == <<"storage.json", 0>>
IDF  == <<"PermanentDeviceId", 0>>
IDU  == <<"PermanentUserId", 0>>

Stores == {DB, XML1, XML2, JSON, IDF, IDU}

\* Path(f"{file_path}.backup")
Bak(p) == <<p[1], p[2] + 1>>

Paths == Stores \cup {Bak(p) : p \in Stores}

Absent == [kind |-> "absent"]
\* bytes that are no valid database, document or tree (never a store the
\* application wrote)
Junk == [kind |-> "junk"]
\* a file truncated by open(..., 'w') or by an interrupted copy
Torn == [kind |-> "torn"]

Exists(f, p) == f[p].kind # "absent"

Table(rows) == [kind |-> "db", rows |-> rows]
Xml(form, nodes) == [kind |-> "xml", form |-> form, nodes |-> nodes]

(***************************************************************************)
(* Environment faults, drawn per call.                                     *)
(*   vanish     the store is removed by another process after the caller's *)
(*              existence check                                            *)
(*   copy       shutil.copy2 raises while taking the backup                *)
(*   sql_pre    sqlite3.Error before the DELETE is committed               *)
(*   sql_post   sqlite3.Error after the commit (e.g. database is locked)   *)
(*   other_post an exception that is no sqlite3.Error, after the commit    *)
(*   write      the write of the file fails after it was truncated; for a *)
(*              database, the DELETE fails and SQLite rolls it back        *)
(* restore: what the copy of the backup over the store does when it is     *)
(* attempted: "ok", "denied" (raises, store untouched) or "torn" (raises   *)
(* after truncating the store).                                            *)
(***************************************************************************)
FaultKinds == {"none", "vanish", "copy", "sql_pre", "sql_post", "other_post", "write"}
RestoreKinds == {"ok", "denied", "torn"}

\* the restore outcome is drawn only where a restore can follow
Faults ==
  {ft \in [kind : FaultKinds, restore : RestoreKinds] :
     ft.kind \in {"vanish", "copy", "other_post"} => ft.restore = "ok"}
\* the faults a file that is no database can meet
FileFaults == {ft \in Faults : ft.kind \in {"none", "vanish", "copy", "write"}}
NoFault == [kind |-> "none", restore |-> "ok"]

\* file-system events of one call, in program order
Ev(op, p) == [op |-> op, path |-> p]

\* what a handler hands back: the file system it leaves, its return
\* ("True", "False"; "exit" for sys.exit(1); "raise" for an exception that
\* escapes it), the number of entries it removed, and its events
Result(f, ret, removed, ev) == [fs |-> f, ret |-> ret, removed |-> removed, ev |-> ev]

(***************************************************************************)
(* utils.backup_file / core_functions.backup_file                          *)
(***************************************************************************)
\* a copy that leaves an existing destination as it is
Copy2_KeepsExisting(f, src, dst) ==
  IF Exists(f, dst) THEN f ELSE [f EXCEPT ![dst] = f[src]]

\* shutil.copy2(file_path, backup_path)
Copy2(f, src, dst) == [f EXCEPT ![dst] = f[src]]

\* utils.backup_file: status "ok", "exit" (sys.exit(1)) or "raise"
backup_file(f, file_path, fault) ==
  LET f1 == IF fault.kind = "vanish" THEN [f EXCEPT ![file_path] = Absent] ELSE f
  IN IF ~Exists(f1, file_path)
     THEN [fs |-> f1, status |-> "exit", ev |-> <<>>]
     ELSE IF fault.kind = "copy"
          THEN [fs |-> f1, status |-> "raise", ev |-> <<>>]
          ELSE [fs |-> Copy2(f1, file_path, Bak(file_path)), status |-> "ok",
                ev |-> <<Ev("backup", file_path)>>]

\* core_functions.backup_file: raises Exception where utils exits
core_backup_file(f, file_path, fault) ==
  LET f1 == IF fault.kind = "vanish" THEN [f EXCEPT ![file_path] = Absent] ELSE f
  IN IF ~Exists(f1, file_path) \/ fault.kind = "copy"
     THEN [fs |-> f1, status |-> "raise", ev |-> <<>>]
     ELSE [fs |-> Copy2(f1, file_path, Bak(file_path)), status |-> "ok",
           ev |-> <<Ev("backup", file_path)>>]

\* `if backup_path.exists(): try: shutil.copy2(backup_path, store) except ...`
RestoreFromBackup(f, store, fault) ==
  IF ~Exists(f, Bak(store)) THEN [fs |-> f, ev |-> <<>>]
  ELSE IF fault.restore = "ok"
       THEN [fs |-> Copy2(f, Bak(store), store), ev |-> <<Ev("restore", store)>>]
       ELSE IF fault.restore = "torn"
            THEN [fs |-> [f EXCEPT ![store] = Torn], ev |-> <<Ev("restore_failed", store)>>]
            ELSE [fs |-> f, ev |-> <<Ev("restore_failed", store)>>]

(***************************************************************************)
(* Tabular stores: ItemTable as a function key -> value                    *)
(***************************************************************************)
\* the keys of the rows the WHERE clause built from search_terms selects
WhereKeys(rows, search_terms) ==
  {k \in DOMAIN rows : WhereClauseSelects(k, search_terms)}

\* the keys of the rows "... WHERE key LIKE '%augment%'" selects
FixedQueryKeys(rows) == {k \in DOMAIN rows : FixedQuerySelects(k)}

\* DELETE FROM ItemTable WHERE ...
DeleteRows(rows, selected) == [k \in (DOMAIN rows \ selected) |-> rows[k]]

IsDb(c) == c.kind = "db"

\* db_cleaner.clean_vscode_based_ide from the first query on: b is what
\* backup_file left, search_terms what get_search_terms() returned
VscodeBasedDelete(b, state_db, fault, search_terms) ==
  LET rows == b.fs[state_db].rows
      count_before == Cardinality(WhereKeys(rows, search_terms))
      f2 == [b.fs EXCEPT ![state_db] = Table(DeleteRows(rows, WhereKeys(rows, search_terms)))]
      ev2 == b.ev \o <<Ev("write", state_db)>>
      count_after == Cardinality(WhereKeys(f2[state_db].rows, search_terms))
  IN IF count_before = 0
     THEN Result(b.fs, "True", 0, b.ev)
     ELSE IF fault.kind = "write"
          THEN \* the DELETE fails and is rolled back: sqlite3.Error
               LET r == RestoreFromBackup(b.fs, state_db, fault)
               IN Result(r.fs, "False", 0, b.ev \o r.ev)
     ELSE IF fault.kind = "sql_post"
          THEN LET r == RestoreFromBackup(f2, state_db, fault)
               IN Result(r.fs, "False", 0, ev2 \o r.ev)
          ELSE IF fault.kind = "other_post"
               THEN \* except Exception: return False
                    Result(f2, "False", 0, ev2)
               ELSE Result(f2, "True", count_before - count_after, ev2)

\* db_cleaner.clean_vscode_based_ide from backup_file(state_db) on
VscodeBasedGuarded(f, state_db, fault) ==
  Only({IF b.status # "ok"
        THEN Result(b.fs, b.status, 0, b.ev)
        ELSE IF ~IsDb(b.fs[state_db]) \/ fault.kind = "sql_pre"
             THEN \* except sqlite3.Error: restore, return False
                  LET r == RestoreFromBackup(b.fs, state_db, fault)
                  IN Result(r.fs, "False", 0, b.ev \o r.ev)
             ELSE VscodeBasedDelete(b, state_db, fault, search_terms) :
        b \in {backup_file(f, state_db, fault)}, search_terms \in {get_search_terms}})

\* variant: a missing database is reported as success
clean_vscode_based_ide_Absorbing(f, state_db, fault) ==
  IF ~Exists(f, state_db)
  THEN Result(f, "True", 0, <<>>)
  ELSE VscodeBasedGuarded(f, state_db, fault)

\* db_cleaner.clean_vscode_based_ide
clean_vscode_based_ide(f, state_db, fault) ==
  IF ~Exists(f, state_db)
  THEN Result(f, "False", 0, <<>>)
  ELSE VscodeBasedGuarded(f, state_db, fault)

\* core_functions.clean_vscode_database: "... WHERE key LIKE '%augment%'"
core_clean_vscode_database(f, state_db, fault) ==
  IF ~Exists(f, state_db)
  THEN Result(f, "False", 0, <<>>)
  ELSE
    LET b == core_backup_file(f, state_db, fault)
    IN IF b.status # "ok"
       THEN \* except Exception: return False
            Result(b.fs, "False", 0, b.ev)
       ELSE
         IF ~IsDb(b.fs[state_db]) \/ fault.kind = "sql_pre"
         THEN \* except sqlite3.Error: return False
              Result(b.fs, "False", 0, b.ev)
         ELSE
           LET rows == b.fs[state_db].rows
               count_before == Cardinality(FixedQueryKeys(rows))
               f2 == [b.fs EXCEPT ![state_db] = Table(DeleteRows(rows, FixedQueryKeys(rows)))]
               ev2 == b.ev \o <<Ev("write", state_db)>>
               count_after == Cardinality(FixedQueryKeys(f2[state_db].rows))
           IN IF count_before = 0
              THEN Result(b.fs, "True", 0, b.ev)
              ELSE IF fault.kind = "write"
                   THEN Result(b.fs, "False", 0, b.ev)
                   ELSE IF fault.kind \in {"sql_post", "other_post"}
                        THEN Result(f2, "False", 0, ev2)
                        ELSE Result(f2, "True", count_before - count_after, ev2)

\* multi_ide_modifier.clean_vscode_database(dir, count_query, delete_query,
\* file_name): db_path is dir / file_name.  No backup is taken; after the
\* store, its ".backup" sibling is cleaned by the same queries, the result of
\* that inner call being dropped.
RECURSIVE multi_clean_vscode_database(_, _, _)
multi_clean_vscode_database(f, db_path, fault) ==
  IF ~Exists(f, db_path)
  THEN Result(f, "True", 0, <<>>)
  ELSE
    IF ~IsDb(f[db_path]) \/ fault.kind = "sql_pre"
    THEN \* except Exception: return False
         Result(f, "False", 0, <<>>)
    ELSE
      LET rows == f[db_path].rows
          rows_to_delete == Cardinality(FixedQueryKeys(rows))
          f2 == IF rows_to_delete > 0
                THEN [f EXCEPT ![db_path] = Table(DeleteRows(rows, FixedQueryKeys(rows)))]
                ELSE f
          ev2 == IF rows_to_delete > 0 THEN <<Ev("write", db_path)>> ELSE <<>>
      IN IF rows_to_delete > 0 /\ fault.kind = "write"
         THEN Result(f, "False", 0, <<>>)
         ELSE IF db_path[2] = 0
              THEN \* if not file_name.endswith(".backup"): clean the backup
                   LET inner == multi_clean_vscode_database(f2, Bak(db_path), NoFault)
                   IN Result(inner.fs, "True", rows_to_delete, ev2 \o inner.ev)
              ELSE Result(f2, "True", rows_to_delete, ev2)

(***************************************************************************)
(* Tree stores.  A tree is a function from node ids to                     *)
(* [parent, tag, text, attrs]; ids are numbered in document order (a       *)
(* node's id is larger than its parent's and than those of everything      *)
(* before it), the root has parent 0, and removing a node removes its      *)
(* subtree from the function's domain.                                     *)
(***************************************************************************)
Node(parent, tag, text, attrs) ==
  [parent |-> parent, tag |-> tag, text |-> text, attrs |-> attrs]

MinOf(S) == CHOOSE x \in S : \A y \in S : x <= y

Root(t) == CHOOSE n \in DOMAIN t : t[n].parent = 0

Children(t, n) == {c \in DOMAIN t : t[c].parent = n}

RECURSIVE IsAncestor(_, _, _)
IsAncestor(t, a, n) ==
  IF t[n].parent = 0 THEN FALSE
  ELSE t[n].parent = a \/ IsAncestor(t, a, t[n].parent)

Descendants(t, n) == {d \in DOMAIN t : IsAncestor(t, n, d)}

\* parent.remove(elem): elem and everything under it leave the tree
RemoveSubtree(t, n) ==
  [k \in (DOMAIN t \ ({n} \cup Descendants(t, n))) |-> t[k]]

\* the test of the first loop of clean_jetbrains_xml_file: direct text, or
\* any attribute value
Flagged(t, n, search_terms) ==
  \/ t[n].text # <<>> /\ check_term_match(t[n].text, search_terms)
  \/ \E a \in DOMAIN t[n].attrs :
        t[n].attrs[a] # <<>> /\ check_term_match(t[n].attrs[a], search_terms)

FlaggedSet(t, search_terms) == {n \in DOMAIN t : Flagged(t, n, search_terms)}

\* root.find(f".//*[{tag}]/.."): the parent of the first descendant of the
\* root, in document order, that has a child named tag; 0 for None
FindParentOfHolder(t, tag) ==
  LET holders == {x \in DOMAIN t \ {Root(t)} : \E c \in Children(t, x) : t[c].tag = tag}
  IN IF holders = {} THEN 0 ELSE t[MinOf(holders)].parent

\* `for elem in elements_to_remove:` over the tree t0 as parsed; t is the
\* tree as mutated so far.  raised: parent.remove(elem) raised ValueError.
RECURSIVE RemoveFlagged(_, _, _, _)
RemoveFlagged(t0, t, order, count) ==
  IF order = <<>> THEN [raised |-> FALSE, nodes |-> t, count |-> count]
  ELSE LET elem == Head(order)
           parent == FindParentOfHolder(t, t0[elem].tag)
       IN IF parent = 0
          THEN RemoveFlagged(t0, t, Tail(order), count)
          ELSE IF elem \in DOMAIN t /\ t[elem].parent = parent
               THEN RemoveFlagged(t0, RemoveSubtree(t, elem), Tail(order), count + 1)
               ELSE [raised |-> TRUE, nodes |-> t, count |-> count]

HasAttr(t, n, a) == a \in DOMAIN t[n].attrs

\* 'projectPath'
ProjectPathLiteral == <<112, 114, 111, 106, 101, 99, 116, 80, 97, 116, 104>>

ValueMatches(t, n, search_terms) ==
  /\ HasAttr(t, n, "value")
  /\ t[n].attrs["value"] # <<>>
  /\ check_term_match(t[n].attrs["value"], search_terms)

\* the "RecentProjectMetaInfo" loop reaches project.getparent(), which
\* xml.etree.ElementTree.Element does not have: AttributeError
RecentProjectsRaises(t, search_terms) ==
  \E rp \in DOMAIN t :
     /\ t[rp].tag = "RecentProjectMetaInfo"
     /\ \E o \in Descendants(t, rp) :
           /\ t[o].tag = "option"
           /\ HasAttr(t, o, "name")
           /\ t[o].attrs["name"] = ProjectPathLiteral
           /\ ValueMatches(t, o, search_terms)

\* the "RecentFiles" loop, from the first RecentFiles element after pos:
\* recent_files.remove(file_elem) raises ValueError unless file_elem is a
\* direct child
RECURSIVE PurgeRecentFiles(_, _, _, _)
PurgeRecentFiles(t, pos, count, search_terms) ==
  LET rfs == {n \in DOMAIN t : n > pos /\ t[n].tag = "RecentFiles"}
  IN IF rfs = {} THEN [raised |-> FALSE, nodes |-> t, count |-> count]
     ELSE LET rf == MinOf(rfs)
              opts == {o \in Descendants(t, rf) :
                         t[o].tag = "option" /\ ValueMatches(t, o, search_terms)}
          IN IF \E o \in opts : t[o].parent # rf
             THEN [raised |-> TRUE, nodes |-> t, count |-> count]
             ELSE PurgeRecentFiles(
                    [k \in (DOMAIN t \ UNION {{o} \cup Descendants(t, o) : o \in opts}) |-> t[k]],
                    rf, count + Cardinality(opts), search_terms)

\* the three passes of clean_jetbrains_xml_file on the parsed tree; order is
\* the iteration order of list(set(elements_to_remove))
TreePurge(t0, order, search_terms) ==
  Only({IF p1.raised THEN p1
        ELSE IF RecentProjectsRaises(p1.nodes, search_terms)
             THEN [raised |-> TRUE, nodes |-> p1.nodes, count |-> p1.count]
             ELSE PurgeRecentFiles(p1.nodes, 0, p1.count, search_terms) :
        p1 \in {RemoveFlagged(t0, t0, order, 0)}})

\* the iteration orders a Python set of the flagged elements may have
Orders(S) == {o \in [1..Cardinality(S) -> S] : \A i, j \in DOMAIN o : i # j => o[i] # o[j]}

IsXml(c) == c.kind = "xml"

TreeOrders(c) == IF IsXml(c) THEN Orders(FlaggedSet(c.nodes, get_search_terms)) ELSE {<<>>}

\* variant: the tree is written back even when nothing was removed
XmlFileWrite_AlwaysWrites(b, xml_file, fault, p) ==
  IF p.raised
  THEN LET r == RestoreFromBackup(b.fs, xml_file, fault)
       IN Result(r.fs, "False", 0, b.ev \o r.ev)
  ELSE Result([b.fs EXCEPT ![xml_file] = Xml("etree", p.nodes)],
              "True", p.count, b.ev \o <<Ev("write", xml_file)>>)

\* db_cleaner.clean_jetbrains_xml_file after the parse: p is what the three
\* passes made of the tree
XmlFileWrite(b, xml_file, fault, p) ==
  IF p.raised
  THEN \* except Exception
       LET r == RestoreFromBackup(b.fs, xml_file, fault)
       IN Result(r.fs, "False", 0, b.ev \o r.ev)
  ELSE IF p.count = 0
       THEN Result(b.fs, "True", 0, b.ev)
       ELSE IF fault.kind = "write"
            THEN LET f2 == [b.fs EXCEPT ![xml_file] = Torn]
                     r == RestoreFromBackup(f2, xml_file, fault)
                 IN Result(r.fs, "False", 0, b.ev \o <<Ev("write", xml_file)>> \o r.ev)
            ELSE Result([b.fs EXCEPT ![xml_file] = Xml("etree", p.nodes)],
                        "True", p.count, b.ev \o <<Ev("write", xml_file)>>)

\* db_cleaner.clean_jetbrains_xml_file
clean_jetbrains_xml_file(f, xml_file, fault, order) ==
  Only({IF b.status = "exit"
        THEN Result(b.fs, "exit", 0, b.ev)
        ELSE IF b.status = "raise"
             THEN \* except Exception: `backup_path` is unbound: UnboundLocalError
                  Result(b.fs, "raise", 0, b.ev)
        ELSE IF ~IsXml(b.fs[xml_file])
             THEN \* except ET.ParseError
                  LET r == RestoreFromBackup(b.fs, xml_file, fault)
                  IN Result(r.fs, "False", 0, b.ev \o r.ev)
             ELSE Only({XmlFileWrite(b, xml_file, fault, p) :
                        p \in {TreePurge(b.fs[xml_file].nodes, order, get_search_terms)}}) :
        b \in {backup_file(f, xml_file, fault)}})

(***************************************************************************)
(* Document stores and identifier files.  An identifier is [fmt, n]: its   *)
(* textual format and the random draw n it was made from.                  *)
(***************************************************************************)
Json(form, doc) == [kind |-> "json", form |-> form, doc |-> doc]
\* valid JSON whose top level is no object
JsonList(form) == [kind |-> "jsonlist", form |-> form]
IdFile(val) == [kind |-> "id", val |-> val]

\* uuid.uuid4().hex + uuid.uuid4().hex
generate_machine_id(n) == [fmt |-> "hex64", n |-> n]
\* str(uuid.uuid4())
generate_device_id(n) == [fmt |-> "uuid4", n |-> n]
\* hashlib.sha256(uuid.uuid4().bytes).hexdigest()
generate_sha256_hash(n) == [fmt |-> "sha256hex", n |-> n]

\* SetKey with an `if key in data` guard around the assignment
SetKey_OnlyIfPresent(doc, key, value) ==
  [k \in DOMAIN doc |-> IF k = key THEN value ELSE doc[k]]

\* data[key] = value on a dict: the key is added when it is absent
SetKey(doc, key, value) ==
  [k \in (DOMAIN doc \cup {key}) |-> IF k = key THEN value ELSE doc[k]]

\* core_functions.modify_telemetry_ids building the document anew
\* (content = {}) instead of updating the one it loaded
core_modify_telemetry_ids_FreshDoc(f, storage_json, fault, n) ==
  IF ~Exists(f, storage_json)
  THEN Result(f, "False", 0, <<>>)
  ELSE
    LET b == core_backup_file(f, storage_json, fault)
    IN IF b.status # "ok"
       THEN Result(b.fs, "False", 0, b.ev)
       ELSE IF b.fs[storage_json].kind # "json"
            THEN Result(b.fs, "False", 0, b.ev)
            ELSE
              LET doc2 == [k \in {"telemetry.machineId", "telemetry.devDeviceId"} |->
                             IF k = "telemetry.machineId" THEN generate_machine_id(n)
                             ELSE generate_device_id(n)]
                  ev2  == b.ev \o <<Ev("write", storage_json)>>
              IN IF fault.kind = "write"
                 THEN Result([b.fs EXCEPT ![storage_json] = Torn], "False", 0, ev2)
                 ELSE Result([b.fs EXCEPT ![storage_json] = Json("dump", doc2)],
                             "True", 0, ev2)

\* core_functions.modify_telemetry_ids
core_modify_telemetry_ids(f, storage_json, fault, n) ==
  IF ~Exists(f, storage_json)
  THEN Result(f, "False", 0, <<>>)
  ELSE
    LET b == core_backup_file(f, storage_json, fault)
    IN IF b.status # "ok"
       THEN Result(b.fs, "False", 0, b.ev)
       ELSE IF b.fs[storage_json].kind # "json"
            THEN \* json.JSONDecodeError, or TypeError on a non-object
                 Result(b.fs, "False", 0, b.ev)
            ELSE
              LET doc1 == SetKey(b.fs[storage_json].doc, "telemetry.machineId",
                                 generate_machine_id(n))
                  doc2 == SetKey(doc1, "telemetry.devDeviceId", generate_device_id(n))
                  ev2  == b.ev \o <<Ev("write", storage_json)>>
              IN IF fault.kind = "write"
                 THEN \* open(..., 'w') truncated the file, json.dump raised
                      Result([b.fs EXCEPT ![storage_json] = Torn], "False", 0, ev2)
                 ELSE Result([b.fs EXCEPT ![storage_json] = Json("dump", doc2)],
                             "True", 0, ev2)

\* id_modifier.modify_telemetry_ids_legacy: utils.backup_file is called
\* outside the try, so its sys.exit(1) and its exceptions escape
legacy_modify_telemetry_ids(f, storage_json, fault, n) ==
  IF ~Exists(f, storage_json)
  THEN Result(f, "False", 0, <<>>)
  ELSE
    LET b == backup_file(f, storage_json, fault)
    IN IF b.status # "ok"
       THEN Result(b.fs, b.status, 0, b.ev)
       ELSE IF b.fs[storage_json].kind # "json"
            THEN \* json.JSONDecodeError, or TypeError on a non-object
                 Result(b.fs, "False", 0, b.ev)
            ELSE
              LET doc1 == SetKey(b.fs[storage_json].doc, "telemetry.machineId",
                                 generate_machine_id(n))
                  doc2 == SetKey(doc1, "telemetry.devDeviceId", generate_device_id(n))
                  ev2  == b.ev \o <<Ev("write", storage_json)>>
              IN IF fault.kind = "write"
                 THEN Result([b.fs EXCEPT ![storage_json] = Torn], "False", 0, ev2)
                 ELSE Result([b.fs EXCEPT ![storage_json] = Json("dump", doc2)],
                             "True", 0, ev2)

\* the base64-decoded vscode_keys, in list order
VscodeKeys == <<"telemetry.machineId", "telemetry.devDeviceId", "telemetry.macMachineId">>

\* multi_ide_modifier.update_vscode_files, called on a storage directory
\* (its storage.json is storage_json); no backup is taken
multi_update_vscode_files(f, storage_json, fault, n) ==
  IF ~Exists(f, storage_json)
  THEN Result(f, "True", 0, <<>>)
  ELSE IF f[storage_json].kind \notin {"json", "jsonlist"}
       THEN \* json.load raises: except Exception: return False
            Result(f, "False", 0, <<>>)
       ELSE
         LET old == f[storage_json]
             new == IF old.kind = "jsonlist"
                    THEN \* every data[key] = ... raises TypeError and is skipped
                         JsonList("dump")
                    ELSE Json("dump",
                              SetKey(SetKey(SetKey(old.doc,
                                 VscodeKeys[1], generate_sha256_hash(n)),
                                 VscodeKeys[2], generate_device_id(n)),
                                 VscodeKeys[3], generate_sha256_hash(n)))
             ev2 == <<Ev("write", storage_json)>>
         IN IF fault.kind = "write"
            THEN Result([f EXCEPT ![storage_json] = Torn], "False", 0, ev2)
            ELSE Result([f EXCEPT ![storage_json] = new], "True", 0, ev2)

\* multi_ide_modifier.update_id_file; no backup is taken
update_id_file(f, file_path, fault, n) ==
  LET f1  == [f EXCEPT ![file_path] = Absent]
      ev1 == IF Exists(f, file_path) THEN <<Ev("unlink", file_path)>> ELSE <<>>
      ev2 == ev1 \o <<Ev("write", file_path)>>
  IN IF fault.kind = "write"
     THEN \* write_text raised after the file was unlinked and re-created
          Result([f1 EXCEPT ![file_path] = Torn], "False", 0, ev2)
     ELSE Result([f1 EXCEPT ![file_path] = IdFile(generate_device_id(n))], "True", 0, ev2)

(***************************************************************************)
(* File permissions and lock_file.  A mode is the set of write-permission  *)
(* bits of the file (user, group, other) and its immutable flag (uchg).    *)
(* On Windows the read-only attribute is the absence of the write bits.    *)
(***************************************************************************)
WriteBits == {"u", "g", "o"}
Mode(w, uchg) == [w |-> w, uchg |-> uchg]

\* the mode of a file created by write_text
NewFileMode(system) ==
  IF system = "Windows" THEN Mode(WriteBits, FALSE) ELSE Mode({"u"}, FALSE)

\* the files that are rewritten and then locked
LockTargets == {IDF, IDU}

\* what one call of lock_file meets:
\*   cmd      the attrib / chmod command: "ok", "fails" (non-zero exit,
\*            ignored by check=False) or "missing" (subprocess.run raises)
\*   chflags  the chflags uchg command on macOS
\*   chmod    the final file_path.stat() / file_path.chmod(): "ok", or
\*            "denied" when one of them raises
LockDraws == [cmd : {"ok", "fails", "missing"}, chflags : {"ok", "fails"},
              chmod : {"ok", "denied"}]

\* lock_file returning True after the platform command, without the final
\* chmod through the Python API
lock_file_TrustsCommand(f, pm, file_path, system, lk) ==
  IF ~Exists(f, file_path)
  THEN [perm |-> pm, ret |-> "False", denied |-> FALSE]
  ELSE IF lk.cmd = "missing"
       THEN [perm |-> pm, ret |-> "False", denied |-> FALSE]
       ELSE LET m0 == pm[file_path]
                m1 == IF lk.cmd = "ok" THEN Mode({}, m0.uchg) ELSE m0
                m2 == IF system = "Darwin" /\ lk.chflags = "ok" THEN Mode(m1.w, TRUE) ELSE m1
            IN [perm |-> [pm EXCEPT ![file_path] = m2], ret |-> "True", denied |-> FALSE]

\* multi_ide_modifier.lock_file.  denied: the final permission change was
\* attempted and could not be applied (an immutable file refuses chmod).
lock_file(f, pm, file_path, system, lk) ==
  IF ~Exists(f, file_path)
  THEN [perm |-> pm, ret |-> "False", denied |-> FALSE]
  ELSE IF lk.cmd = "missing"
       THEN \* FileNotFoundError of subprocess.run: except Exception
            [perm |-> pm, ret |-> "False", denied |-> FALSE]
       ELSE LET m0 == pm[file_path]
                m1 == IF lk.cmd = "ok" THEN Mode({}, m0.uchg) ELSE m0
                m2 == IF system = "Darwin" /\ lk.chflags = "ok" THEN Mode(m1.w, TRUE) ELSE m1
            IN IF m2.uchg \/ lk.chmod = "denied"
               THEN [perm |-> [pm EXCEPT ![file_path] = m2], ret |-> "False",
                     denied |-> TRUE]
               ELSE [perm |-> [pm EXCEPT ![file_path] = Mode({}, m2.uchg)],
                     ret |-> "True", denied |-> FALSE]

\* file_path.unlink() raises PermissionError on an immutable file and, on
\* Windows, on a read-only one
UnlinkRefused(system, m) == m.uchg \/ (system = "Windows" /\ m.w = {})

\* update_id_file on a file with permissions: [fs, perm, ret]
update_id_file_at(f, pm, file_path, system, fault, n) ==
  IF Exists(f, file_path) /\ UnlinkRefused(system, pm[file_path])
  THEN [fs |-> f, perm |-> pm, ret |-> "False"]
  ELSE LET r == update_id_file(f, file_path, fault, n)
       IN [fs |-> r.fs, perm |-> [pm EXCEPT ![file_path] = NewFileMode(system)],
           ret |-> r.ret]

\* one rewrite-then-lock of an identifier file as a handler reports it:
\* updated / locked are the returns of update_id_file and lock_file
\* ("skipped" when not called), ret what the handler reports for the file
IdCall(op, path, updated, lock, ret, pm) ==
  [op |-> op, path |-> path, updated |-> updated,
   locked |-> lock.ret, denied |-> lock.denied, ret |-> ret, mode |-> pm[path]]

NoLock == [ret |-> "skipped", denied |-> FALSE]

\* one iteration of the loop of id_modifier.modify_jetbrains_ids; ret is
\* "True" when the file is counted in success_count
JetbrainsIdFile(f, pm, file_path, system, fault, lk, n) ==
  LET u == update_id_file_at(f, pm, file_path, system, fault, n)
  IN IF u.ret = "True"
     THEN LET l == lock_file(u.fs, u.perm, file_path, system, lk)
          IN [fs |-> u.fs, perm |-> l.perm,
              call |-> IdCall("modify_jetbrains_ids", file_path, "True", l, l.ret, l.perm)]
     ELSE [fs |-> u.fs, perm |-> u.perm,
           call |-> IdCall("modify_jetbrains_ids", file_path, "False", NoLock, "False", u.perm)]

\* id_modifier.modify_jetbrains_ids over PermanentDeviceId, PermanentUserId
modify_jetbrains_ids(f, pm, system, jetbrains_dir, faults, lks, ns) ==
  IF ~jetbrains_dir
  THEN [fs |-> f, perm |-> pm, ret |-> "False", calls |-> <<>>]
  ELSE LET s1 == JetbrainsIdFile(f, pm, IDF, system, faults[1], lks[1], ns[1])
           s2 == JetbrainsIdFile(s1.fs, s1.perm, IDU, system, faults[2], lks[2], ns[2])
           success_count == (IF s1.call.ret = "True" THEN 1 ELSE 0)
                            + (IF s2.call.ret = "True" THEN 1 ELSE 0)
       IN [fs |-> s2.fs, perm |-> s2.perm,
           ret |-> IF success_count > 0 THEN "True" ELSE "False",
           calls |-> <<s1.call, s2.call>>]

\* id_modifier.update_vscode_files on a path that is a file:
\* return update_id_file(vscode_path) and lock_file(vscode_path)
ids_update_vscode_files_file(f, pm, file_path, system, fault, lk, n) ==
  IF ~Exists(f, file_path)
  THEN [fs |-> f, perm |-> pm, ret |-> "True", calls |-> <<>>]
  ELSE LET u == update_id_file_at(f, pm, file_path, system, fault, n)
       IN IF u.ret = "True"
          THEN LET l == lock_file(u.fs, u.perm, file_path, system, lk)
               IN [fs |-> u.fs, perm |-> l.perm, ret |-> l.ret,
                   calls |-> <<IdCall("ids_update_vscode_files", file_path, "True", l,
                                      l.ret, l.perm)>>]
          ELSE [fs |-> u.fs, perm |-> u.perm, ret |-> "False",
                calls |-> <<IdCall("ids_update_vscode_files", file_path, "False", NoLock,
                                   "False", u.perm)>>]

\* multi_ide_modifier.update_vscode_files on a path that is a file:
\* if update_id_file(p): return lock_file(p); then return True
multi_update_vscode_files_file(f, pm, file_path, system, fault, lk, n) ==
  IF ~Exists(f, file_path)
  THEN [fs |-> f, perm |-> pm, ret |-> "True", calls |-> <<>>]
  ELSE LET u == update_id_file_at(f, pm, file_path, system, fault, n)
       IN IF u.ret = "True"
          THEN LET l == lock_file(u.fs, u.perm, file_path, system, lk)
               IN [fs |-> u.fs, perm |-> l.perm, ret |-> l.ret,
                   calls |-> <<IdCall("multi_update_vscode_files", file_path, "True", l,
                                      l.ret, l.perm)>>]
          ELSE [fs |-> u.fs, perm |-> u.perm, ret |-> "True",
                calls |-> <<IdCall("multi_update_vscode_files", file_path, "False", NoLock,
                                   "True", u.perm)>>]

(***************************************************************************)
(* One record per handler call: what the call was given, what it returned, *)
(* the file events it caused in order, and the bytes of the store and of   *)
(* its backup before and after.  missing: the store did not exist when the *)
(* call started.                                                           *)
(***************************************************************************)
MkCall(op, path, f, res) ==
  [op |-> op, path |-> path, ret |-> res.ret,
   removed |-> res.removed, ev |-> res.ev, missing |-> ~Exists(f, path),
   before |-> f[path], after |-> res.fs[path],
   bak_before |-> f[Bak(path)], bak_after |-> res.fs[Bak(path)]]

Escapes(ret) == ret \in {"exit", "raise"}

\* one `if xml and xml.exists(): ... clean_jetbrains_xml_file(xml)` of
\* clean_jetbrains_ide; ret "skipped" when the file is not there
JetbrainsFile(f, xml_file, fault, order) ==
  IF Exists(f, xml_file)
  THEN Only({[fs |-> r.fs, ret |-> r.ret,
              calls |-> <<MkCall("clean_jetbrains_xml_file", xml_file, f, r)>>] :
             r \in {clean_jetbrains_xml_file(f, xml_file, fault, order)}})
  ELSE [fs |-> f, ret |-> "skipped", calls |-> <<>>]

\* db_cleaner.clean_jetbrains_ide, with get_ide_paths' existence checks
clean_jetbrains_ide(f, fault1, fault2, order1, order2) ==
  Only({IF Escapes(s1.ret) THEN s1
        ELSE Only({LET total_files == (IF s1.ret # "skipped" THEN 1 ELSE 0)
                                      + (IF s2.ret # "skipped" THEN 1 ELSE 0)
                       success_count == (IF s1.ret = "True" THEN 1 ELSE 0)
                                        + (IF s2.ret = "True" THEN 1 ELSE 0)
                   IN [fs |-> s2.fs,
                       ret |-> IF Escapes(s2.ret) THEN s2.ret
                               ELSE IF total_files = 0 THEN "False"
                               ELSE IF success_count > 0 THEN "True" ELSE "False",
                       calls |-> s1.calls \o s2.calls] :
                   s2 \in {JetbrainsFile(s1.fs, XML2, fault2, order2)}}) :
        s1 \in {JetbrainsFile(f, XML1, fault1, order1)}})

\* db_cleaner.clean_ide_db: dispatch on the IDE family
clean_ide_db(f, ide_key, fault1, fault2, order1, order2) ==
  IF ide_key = "vscode"
  THEN Only({[fs |-> r.fs, ret |-> r.ret,
              calls |-> <<MkCall("clean_vscode_based_ide", DB, f, r)>>] :
             r \in {clean_vscode_based_ide(f, DB, fault1)}})
  ELSE clean_jetbrains_ide(f, fault1, fault2, order1, order2)

\* the IDE_CONFIGS keys modelled, in dictionary order: one of the SQLite
\* family and one of the JetBrains family
IDE_KEYS == <<"vscode", "intellij">>

\* the number of candidate roots in each platform list of the descriptor
RootCount(ide_key) == IF ide_key = "vscode" THEN 1 ELSE 3

\* a candidate root is <<ide_key, i>>: the i-th path of the descriptor's list
\* for the platform at hand (for intellij: 2024.3, 2024.2, 2024.1)
AllRoots == UNION {{<<k, i>> : i \in 1..RootCount(k)} : k \in {"vscode", "intellij"}}

\* `paths_key in config`: the descriptors list paths for these platforms
HasPathsKey(system) == system \in {"Windows", "Linux", "Darwin"}

\* None, the entry of a Windows list when APPDATA is not set
NonePath == <<>>

\* config[paths_key] in list order
CandidatePaths(ide_key, system, appdata) ==
  [i \in 1..RootCount(ide_key) |->
     IF system = "Windows" /\ ~appdata THEN NonePath ELSE <<ide_key, i>>]

\* `for path in paths: if path and path.exists(): append; break`
RECURSIVE FirstExisting(_, _, _, _)
FirstExisting(ide_key, paths, existing, i) ==
  IF i > Len(paths) THEN <<>>
  ELSE IF paths[i] # NonePath /\ paths[i] \in existing
       THEN << <<ide_key, paths[i]>> >>
       ELSE FirstExisting(ide_key, paths, existing, i + 1)

\* the same loop without its break
RECURSIVE EveryExisting(_, _, _, _)
EveryExisting(ide_key, paths, existing, i) ==
  IF i > Len(paths) THEN <<>>
  ELSE (IF paths[i] # NonePath /\ paths[i] \in existing
        THEN << <<ide_key, paths[i]>> >> ELSE <<>>)
       \o EveryExisting(ide_key, paths, existing, i + 1)

\* detect_installed_ides without the break after the first existing path
detect_installed_ides_NoBreak(existing, system, appdata) ==
  Flatten([k \in 1..Len(IDE_KEYS) |->
             LET paths == CandidatePaths(IDE_KEYS[k], system, appdata)
             IN IF ~HasPathsKey(system) THEN <<>>
                ELSE EveryExisting(IDE_KEYS[k], paths, existing, 1)])

\* utils.detect_installed_ides: the list of (ide_key, base_path)
detect_installed_ides(existing, system, appdata) ==
  Flatten([k \in 1..Len(IDE_KEYS) |->
             LET paths == CandidatePaths(IDE_KEYS[k], system, appdata)
             IN IF ~HasPathsKey(system) THEN <<>>
                ELSE FirstExisting(IDE_KEYS[k], paths, existing, 1)])

\* what a locator call hands back: status "ok", "exit" (sys.exit(1)) or
\* "raise", and the (ide_key, base_path) pairs found
Located(op, ide_key, status, found) ==
  [op |-> op, ide_key |-> ide_key, status |-> status, found |-> found]

\* utils.get_ide_base_path for a key of IDE_CONFIGS
get_ide_base_path(ide_key, existing, system, appdata) ==
  LET paths == CandidatePaths(ide_key, system, appdata)
  IN IF ~HasPathsKey(system)
     THEN Located("get_ide_base_path", ide_key, "exit", <<>>)
     ELSE LET found == FirstExisting(ide_key, paths, existing, 1)
          IN Located("get_ide_base_path", ide_key,
                     IF found = <<>> THEN "exit" ELSE "ok", found)

\* core_functions.get_vscode_paths: the paths under the one platform
\* directory, returned whether they exist or not; it raises where APPDATA is
\* not set and on an unsupported platform
core_get_vscode_paths(existing, system, appdata) ==
  IF ~HasPathsKey(system) \/ (system = "Windows" /\ ~appdata)
  THEN Located("core_get_vscode_paths", "vscode", "raise", <<>>)
  ELSE Located("core_get_vscode_paths", "vscode", "ok",
               << <<"vscode", <<"vscode", 1>>>> >>)

(***************************************************************************)
(* Sample store contents                                                   *)
(***************************************************************************)
\* 'xAUGMENTy'
KeyUpper == <<120, 65, 85, 71, 77, 69, 78, 84, 121>>
\* 'other'
KeyOther == <<111, 116, 104, 101, 114>>
\* 'augmen'
KeyNear == <<97, 117, 103, 109, 101, 110>>
\* 'augmen@1'
KeyAt == <<97, 117, 103, 109, 101, 110, 64, 49>>

RowsOver(keys) == [k \in keys |-> "v"]

\* '/x/Augmented'
PathMatch == <<47, 120, 47, 65, 117, 103, 109, 101, 110, 116, 101, 100>>
\* 'plain'
TextPlain == <<112, 108, 97, 105, 110>>

NoAttrs == [a \in {} |-> <<>>]

KindPlain == [tag |-> "a", text |-> TextPlain, attrs |-> NoAttrs]
KindMatch == [tag |-> "a", text |-> AugmentLiteral, attrs |-> NoAttrs]
KindOption == [tag |-> "option", text |-> <<>>,
               attrs |-> [a \in {"name", "value"} |->
                            IF a = "name" THEN ProjectPathLiteral ELSE PathMatch]]
KindRecentFiles == [tag |-> "RecentFiles", text |-> <<>>, attrs |-> NoAttrs]
KindRecentProject == [tag |-> "RecentProjectMetaInfo", text |-> <<>>, attrs |-> NoAttrs]

NodeKinds == {KindPlain, KindMatch, KindOption, KindRecentFiles, KindRecentProject}

RECURSIVE VecAncestor(_, _, _)
VecAncestor(pv, a, n) ==
  IF pv[n] = 0 THEN FALSE ELSE pv[n] = a \/ VecAncestor(pv, a, pv[n])

\* parent vectors of the trees of n nodes numbered in document order
ParentVecs(n) ==
  {pv \in [1..n -> 0..(n - 1)] :
     /\ pv[1] = 0
     /\ \A i \in 2..n : /\ pv[i] \in 1..(i - 1)
                        /\ pv[i] = i - 1 \/ VecAncestor(pv, pv[i], i - 1)}

TreesOf(n) ==
  {[i \in 1..n |-> Node(pv[i], ks[i].tag, ks[i].text, ks[i].attrs)] :
     pv \in ParentVecs(n), ks \in [1..n -> NodeKinds]}

MkTree(pv, ks) == [i \in 1..Len(pv) |-> Node(pv[i], ks[i].tag, ks[i].text, ks[i].attrs)]

\* <a>plain<a>plain</a></a>: nothing to remove
TreeClean == MkTree(<<0, 1>>, <<KindPlain, KindPlain>>)
\* <a>plain<a>augment<a>plain</a></a></a>: the middle element is removed
TreeRemovable == MkTree(<<0, 1, 2>>, <<KindPlain, KindMatch, KindPlain>>)
\* <a>plain<a>plain<a>augment</a></a></a>: parent.remove raises
TreeRaising == MkTree(<<0, 1, 2>>, <<KindPlain, KindPlain, KindMatch>>)
\* <RecentFiles><option .../></RecentFiles>
TreeRecent == MkTree(<<0, 1>>, <<KindRecentFiles, KindOption>>)

OldId == [fmt |-> "old", n |-> 0]

DocWithIds == [k \in {"telemetry.machineId", "other"} |-> OldId]
DocWithoutIds == [k \in {"other"} |-> OldId]

(***************************************************************************)
(* State                                                                   *)
(*   fs    the files: path -> content                                      *)
(*   prog  the program being run: "cli" (augment_vip.cli with db_cleaner), *)
(*         "gui" (core_functions), "multi" (multi_ide_modifier), or        *)
(*         "purge" (the purge handlers called one at a time)               *)
(*   run   the `clean --auto` invocation in progress                       *)
(*   log   the handler calls made by the last step                         *)
(*   prev  the handler calls made by the step before it (purge only)       *)
(*   perm  the permissions of the identifier file (identifier programs)    *)
(*   plat  platform.system()                                               *)
(*   gui   the window of gui_main: its buttons, dialogs and worker threads *)
(*   arg   the arguments of the function under study (locator, codec)      *)
(*   out   what that function returned                                     *)
(***************************************************************************)
VARIABLES fs, prog, run, log, prev, perm, plat, gui, arg, out

vars == <<fs, prog, run, log, prev, perm, plat, gui, arg, out>>

\* the state of the programs that are not running
ext == <<perm, plat, gui, arg, out>>

MaxNodes == 3
MaxNonce == 2

Nonces == 1..MaxNonce

\* the draws of uuid.uuid4() that the identifiers held by the files were
\* made from
UsedNonces(f) ==
  UNION {IF f[p].kind = "json" THEN {f[p].doc[k].n : k \in DOMAIN f[p].doc}
         ELSE IF f[p].kind = "id" THEN {f[p].val.n}
         ELSE {} : p \in Paths}

\* uuid.uuid4() returns a value no file holds yet
FreshNonces(f) == Nonces \ UsedNonces(f)

\* the window after init_ui: buttons enabled, progress bar hidden, no modal
\* dialog open, no operation awaiting confirmation, no worker thread started
NoGui == [buttons_enabled |-> TRUE, progress |-> FALSE, dialogs |-> <<>>,
          pending |-> "none", workers |-> <<>>]

\* the programs that are not running hold their initial state
ExtIdle ==
  /\ perm = [p \in LockTargets |-> NewFileMode("Linux")]
  /\ plat = "Linux"
  /\ gui = NoGui
  /\ arg = <<>>
  /\ out = <<>>

NoRun == [status |-> "idle", queue |-> <<>>, idx |-> 0, success_count |-> 0, exit |-> -1]

WithFiles(db, x1, x2, js, idf, dbbak) ==
  [p \in Paths |->
     IF p = DB THEN db ELSE IF p = XML1 THEN x1 ELSE IF p = XML2 THEN x2
     ELSE IF p = JSON THEN js ELSE IF p = IDF THEN idf
     ELSE IF p = Bak(DB) THEN dbbak ELSE Absent]

DbSamples ==
  {Absent, Junk, Table(RowsOver({})), Table(RowsOver({KeyOther})),
   Table(RowsOver({AugmentLiteral, KeyOther}))}

XmlSamples ==
  {Absent, Junk, Xml("ide", TreeClean), Xml("ide", TreeRemovable),
   Xml("ide", TreeRaising), Xml("ide", TreeRecent)}

Xml2Samples == {Absent, Xml("ide", TreeRemovable)}

JsonSamples ==
  {Absent, Junk, JsonList("ide"), Json("ide", DocWithIds), Json("ide", DocWithoutIds)}

IdSamples == {Absent, IdFile(OldId)}

DbBakSamples == {Absent, Table(RowsOver({KeyUpper}))}

Init ==
  /\ prog \in {"cli", "gui", "multi", "legacy"}
  /\ run = NoRun
  /\ log = <<>>
  /\ prev = <<>>
  /\ ExtIdle
  /\ \/ /\ prog = "cli"
        /\ \E db \in DbSamples, x1 \in XmlSamples, x2 \in Xml2Samples :
              fs = WithFiles(db, x1, x2, Absent, Absent, Absent)
     \/ /\ prog = "gui"
        /\ \E db \in DbSamples, js \in JsonSamples :
              fs = WithFiles(db, Absent, Absent, js, Absent, Absent)
     \/ /\ prog = "multi"
        /\ \E db \in DbSamples, js \in JsonSamples, idf \in IdSamples, bk \in DbBakSamples :
              fs = WithFiles(db, Absent, Absent, js, idf, bk)
     \/ /\ prog = "legacy"
        /\ \E js \in JsonSamples :
              fs = WithFiles(Absent, Absent, Absent, js, Absent, Absent)

(***************************************************************************)
(* augment_vip.cli: `clean --auto`                                         *)
(***************************************************************************)
\* cli.clean, lines up to the loop: detection, exit 1 when nothing is found
CliCleanStart ==
  /\ prog = "cli"
  /\ run.status = "idle"
  /\ \E existing \in SUBSET AllRoots :
       \E installed_ides \in {detect_installed_ides(existing, plat, TRUE)} :
          run' = IF installed_ides = <<>>
                 THEN [NoRun EXCEPT !.status = "done", !.exit = 1]
                 ELSE [NoRun EXCEPT !.status = "running", !.idx = 1,
                                    !.queue = [i \in 1..Len(installed_ides) |->
                                                 installed_ides[i][1]]]
  /\ log' = <<>>
  /\ UNCHANGED <<fs, prog, prev>>
  /\ UNCHANGED ext

\* what one iteration draws from the environment: a fault per store file
\* and the iteration order of each file's set of flagged elements
StepInputs(f, ide_key) ==
  IF ide_key = "vscode"
  THEN {<<ft, NoFault, <<>>, <<>>>> : ft \in Faults}
  ELSE {<<ft1, ft2, o1, o2>> : ft1 \in FileFaults, ft2 \in FileFaults,
                               o1 \in TreeOrders(f[XML1]), o2 \in TreeOrders(f[XML2])}

\* one iteration of `for ide_key, ide_name, base_path in installed_ides`.
\* SystemExit and exceptions leave the loop: cli.main turns an exception into
\* sys.exit(1).
CliCleanStep ==
  /\ prog = "cli"
  /\ run.status = "running"
  /\ run.idx <= Len(run.queue)
  /\ \E inp \in StepInputs(fs, run.queue[run.idx]) :
       \E r \in {clean_ide_db(fs, run.queue[run.idx], inp[1], inp[2], inp[3], inp[4])} :
          /\ fs' = r.fs
          /\ log' = r.calls
          /\ run' = IF Escapes(r.ret)
                    THEN [run EXCEPT !.status = "aborted", !.exit = 1]
                    ELSE [run EXCEPT !.idx = @ + 1,
                                     !.success_count = IF r.ret = "True" THEN @ + 1 ELSE @]
  /\ UNCHANGED <<prog, prev>>
  /\ UNCHANGED ext

\* cli.clean after the loop
CliCleanFinish ==
  /\ prog = "cli"
  /\ run.status = "running"
  /\ run.idx > Len(run.queue)
  /\ run' = [run EXCEPT !.status = "done",
                        !.exit = IF run.success_count > 0 THEN 0 ELSE 1]
  /\ log' = <<>>
  /\ UNCHANGED <<fs, prog, prev>>
  /\ UNCHANGED ext

(***************************************************************************)
(* core_functions (the GUI's operations)                                   *)
(***************************************************************************)
GuiCleanDatabase ==
  /\ prog = "gui"
  /\ \E fault \in Faults :
       \E r \in {core_clean_vscode_database(fs, DB, fault)} :
          /\ fs' = r.fs
          /\ log' = <<MkCall("core_clean_vscode_database", DB, fs, r)>>
  /\ UNCHANGED <<prog, run, prev>>
  /\ UNCHANGED ext

GuiModifyTelemetryIds ==
  /\ prog = "gui"
  /\ \E fault \in FileFaults, n \in FreshNonces(fs) :
       \E r \in {core_modify_telemetry_ids(fs, JSON, fault, n)} :
          /\ fs' = r.fs
          /\ log' = <<MkCall("core_modify_telemetry_ids", JSON, fs, r)>>
  /\ UNCHANGED <<prog, run, prev>>
  /\ UNCHANGED ext

(***************************************************************************)
(* multi_ide_modifier                                                      *)
(***************************************************************************)
MultiCleanDatabase ==
  /\ prog = "multi"
  /\ \E fault \in Faults :
       \E r \in {multi_clean_vscode_database(fs, DB, fault)} :
          /\ fs' = r.fs
          /\ log' = <<MkCall("multi_clean_vscode_database", DB, fs, r)>>
  /\ UNCHANGED <<prog, run, prev>>
  /\ UNCHANGED ext

MultiUpdateVscodeFiles ==
  /\ prog = "multi"
  /\ \E fault \in FileFaults, n \in FreshNonces(fs) :
       \E r \in {multi_update_vscode_files(fs, JSON, fault, n)} :
          /\ fs' = r.fs
          /\ log' = <<MkCall("multi_update_vscode_files", JSON, fs, r)>>
  /\ UNCHANGED <<prog, run, prev>>
  /\ UNCHANGED ext

MultiUpdateIdFile ==
  /\ prog = "multi"
  /\ \E fault \in FileFaults, n \in FreshNonces(fs) :
       \E r \in {update_id_file(fs, IDF, fault, n)} :
          /\ fs' = r.fs
          /\ log' = <<MkCall("update_id_file", IDF, fs, r)>>
  /\ UNCHANGED <<prog, run, prev>>
  /\ UNCHANGED ext

(***************************************************************************)
(* augment_vip.id_modifier: the legacy VS Code modifier                    *)
(***************************************************************************)
LegacyModifyTelemetryIds ==
  /\ prog = "legacy"
  /\ \E fault \in FileFaults, n \in FreshNonces(fs) :
       \E r \in {legacy_modify_telemetry_ids(fs, JSON, fault, n)} :
          /\ fs' = r.fs
          /\ log' = <<MkCall("legacy_modify_telemetry_ids", JSON, fs, r)>>
  /\ UNCHANGED <<prog, run, prev>>
  /\ UNCHANGED ext

Next ==
  \/ CliCleanStart
  \/ CliCleanStep
  \/ CliCleanFinish
  \/ GuiCleanDatabase
  \/ GuiModifyTelemetryIds
  \/ MultiCleanDatabase
  \/ MultiUpdateVscodeFiles
  \/ MultiUpdateIdFile
  \/ LegacyModifyTelemetryIds

Spec == Init /\ [][Next]_vars

(***************************************************************************)
(* The purge handlers on their own: every table over PurgeKeys and every   *)
(* tree of up to MaxNodes nodes, purged any number of times with no fault  *)
(* from the environment.                                                   *)
(***************************************************************************)
PurgeKeys == {AugmentLiteral, KeyUpper, KeyOther, KeyNear, KeyAt}

\* what is kept of the calls of the step before
Brief(calls) ==
  [i \in 1..Len(calls) |->
     [op |-> calls[i].op, path |-> calls[i].path, ret |-> calls[i].ret,
      removed |-> calls[i].removed]]

PurgeTables == {Table(RowsOver(ks)) : ks \in SUBSET PurgeKeys}

PurgeTrees == UNION {{Xml("ide", t) : t \in TreesOf(n)} : n \in 1..MaxNodes}

InitPurge ==
  /\ prog = "purge"
  /\ run = NoRun
  /\ log = <<>>
  /\ prev = <<>>
  /\ ExtIdle
  /\ \/ \E db \in PurgeTables : fs = WithFiles(db, Absent, Absent, Absent, Absent, Absent)
     \/ \E x \in PurgeTrees : fs = WithFiles(Absent, x, Absent, Absent, Absent, Absent)

\* db_cleaner.clean_vscode_based_ide on the database
PurgeTabular ==
  /\ prog = "purge"
  /\ \E r \in {clean_vscode_based_ide(fs, DB, NoFault)} :
          /\ fs' = r.fs
          /\ log' = <<MkCall("clean_vscode_based_ide", DB, fs, r)>>
  /\ prev' = Brief(log)
  /\ UNCHANGED <<prog, run>>
  /\ UNCHANGED ext

\* core_functions.clean_vscode_database on the database
PurgeTabularCore ==
  /\ prog = "purge"
  /\ \E r \in {core_clean_vscode_database(fs, DB, NoFault)} :
          /\ fs' = r.fs
          /\ log' = <<MkCall("core_clean_vscode_database", DB, fs, r)>>
  /\ prev' = Brief(log)
  /\ UNCHANGED <<prog, run>>
  /\ UNCHANGED ext

\* multi_ide_modifier.clean_vscode_database on the database
PurgeTabularMulti ==
  /\ prog = "purge"
  /\ \E r \in {multi_clean_vscode_database(fs, DB, NoFault)} :
          /\ fs' = r.fs
          /\ log' = <<MkCall("multi_clean_vscode_database", DB, fs, r)>>
  /\ prev' = Brief(log)
  /\ UNCHANGED <<prog, run>>
  /\ UNCHANGED ext

\* db_cleaner.clean_jetbrains_xml_file on the tree store
PurgeTree ==
  /\ prog = "purge"
  /\ Exists(fs, XML1)
  /\ \E order \in TreeOrders(fs[XML1]) :
       \E r \in {clean_jetbrains_xml_file(fs, XML1, NoFault, order)} :
          /\ fs' = r.fs
          /\ log' = <<MkCall("clean_jetbrains_xml_file", XML1, fs, r)>>
  /\ prev' = Brief(log)
  /\ UNCHANGED <<prog, run>>
  /\ UNCHANGED ext

NextPurge ==
  \/ PurgeTabular
  \/ PurgeTabularCore
  \/ PurgeTabularMulti
  \/ PurgeTree

SpecPurge == InitPurge /\ [][NextPurge]_vars

(***************************************************************************)
(* gui_main: the window, its modal dialogs and its worker threads.         *)
(* Handlers run on the main thread; a modal dialog (QMessageBox) runs a    *)
(* nested event loop: it blocks input to the window and still delivers the *)
(* queued finished signals of the workers.                                 *)
(***************************************************************************)
MaxWorkers == 2

Operations ==
  {"run_all_operations", "close_vscode", "clean_vscode_database", "modify_telemetry_ids"}

\* the operations started with a confirm_message
NeedsConfirm == {"run_all_operations", "close_vscode"}

set_buttons_enabled(g, enabled) == [g EXCEPT !.buttons_enabled = enabled]

show_progress(g, show) == [g EXCEPT !.progress = show]

\* run_operation that starts the worker and leaves the buttons enabled
StartWorker_ButtonsLeftEnabled(g, operation) ==
  [show_progress(g, TRUE) EXCEPT
     !.pending = "none",
     !.workers = Append(@, [operation |-> operation, status |-> "running"])]

\* run_operation from set_buttons_enabled(False) to self.worker.start()
StartWorker(g, operation) ==
  [show_progress(set_buttons_enabled(g, FALSE), TRUE) EXCEPT
     !.pending = "none",
     !.workers = Append(@, [operation |-> operation, status |-> "running"])]

\* operation_finished going to its message box without touching the buttons
\* and the progress bar
operation_finished_LeavesDisabled(g, i) ==
  [g EXCEPT !.workers[i].status = "handled", !.dialogs = Append(@, "result")]

\* operation_finished for worker i, up to its message box
operation_finished(g, i) ==
  [show_progress(set_buttons_enabled(g, TRUE), FALSE) EXCEPT
     !.workers[i].status = "handled",
     !.dialogs = Append(@, "result")]

\* one step of an operation and what it returned
Step(op, ret) == [op |-> op, ret |-> ret]

\* core_functions.close_vscode
close_vscode(closed) == IF closed THEN "True" ELSE "False"

\* run_all_operations giving up at the first step that failed
run_all_operations_StopsAtFailure(f, closed, fault_db, fault_js, n) ==
  LET r1 == core_clean_vscode_database(f, DB, fault_db)
      r2 == core_modify_telemetry_ids(r1.fs, JSON, fault_js, n)
  IN IF ~closed
     THEN [fs |-> f, ret |-> "False", calls |-> <<>>,
           steps |-> <<Step("close_vscode", "False")>>]
     ELSE IF r1.ret # "True"
     THEN [fs |-> r1.fs, ret |-> "False",
           calls |-> <<MkCall("core_clean_vscode_database", DB, f, r1)>>,
           steps |-> <<Step("close_vscode", "True"),
                       Step("clean_vscode_database", r1.ret)>>]
     ELSE [fs |-> r2.fs, ret |-> r2.ret,
           calls |-> <<MkCall("core_clean_vscode_database", DB, f, r1),
                       MkCall("core_modify_telemetry_ids", JSON, r1.fs, r2)>>,
           steps |-> <<Step("close_vscode", "True"),
                       Step("clean_vscode_database", r1.ret),
                       Step("modify_telemetry_ids", r2.ret)>>]

\* core_functions.run_all_operations: steps are the calls it makes, in the
\* order it makes them
run_all_operations(f, closed, fault_db, fault_js, n) ==
  LET r0 == close_vscode(closed)
      r1 == core_clean_vscode_database(f, DB, fault_db)
      r2 == core_modify_telemetry_ids(r1.fs, JSON, fault_js, n)
  IN [fs |-> r2.fs,
      ret |-> IF r0 = "True" /\ r1.ret = "True" /\ r2.ret = "True" THEN "True" ELSE "False",
      calls |-> <<MkCall("core_clean_vscode_database", DB, f, r1),
                  MkCall("core_modify_telemetry_ids", JSON, r1.fs, r2)>>,
      steps |-> <<Step("close_vscode", r0),
                  Step("clean_vscode_database", r1.ret),
                  Step("modify_telemetry_ids", r2.ret)>>]

\* self.operation() of WorkerThread.run: [fs, ret, calls, steps]
RunOperation(f, operation, closed, fault_db, fault_js, n) ==
  IF operation = "run_all_operations"
  THEN run_all_operations(f, closed, fault_db, fault_js, n)
  ELSE IF operation = "close_vscode"
  THEN [fs |-> f, ret |-> close_vscode(closed), calls |-> <<>>,
        steps |-> <<Step("close_vscode", close_vscode(closed))>>]
  ELSE IF operation = "clean_vscode_database"
  THEN LET r == core_clean_vscode_database(f, DB, fault_db)
       IN [fs |-> r.fs, ret |-> r.ret,
           calls |-> <<MkCall("core_clean_vscode_database", DB, f, r)>>,
           steps |-> <<Step("clean_vscode_database", r.ret)>>]
  ELSE LET r == core_modify_telemetry_ids(f, JSON, fault_js, n)
       IN [fs |-> r.fs, ret |-> r.ret,
           calls |-> <<MkCall("core_modify_telemetry_ids", JSON, f, r)>>,
           steps |-> <<Step("modify_telemetry_ids", r.ret)>>]

\* what the last operation a worker ran did
Ran(operation, steps, ret) == [operation |-> operation, steps |-> steps, ret |-> ret]

\* what an operation draws from the environment: whether VS Code could be
\* closed, a fault for the database and one for storage.json.  core_functions
\* never restores, and an operation draws only what it uses.
WorkerDraws(operation) ==
  {<<closed, fault_db, fault_js>> \in BOOLEAN \X Faults \X FileFaults :
     /\ fault_db.restore = "ok"
     /\ fault_js.restore = "ok"
     /\ operation \in {"clean_vscode_database", "modify_telemetry_ids"} => closed
     /\ operation \in {"close_vscode", "modify_telemetry_ids"} => fault_db = NoFault
     /\ operation \in {"close_vscode", "clean_vscode_database"} => fault_js = NoFault}

InitGui ==
  /\ prog = "window"
  /\ run = NoRun
  /\ log = <<>>
  /\ prev = <<>>
  /\ perm = [p \in LockTargets |-> NewFileMode("Linux")]
  /\ plat = "Linux"
  /\ gui = NoGui
  /\ arg = <<>>
  /\ out = Ran("none", <<>>, "True")
  /\ \E db \in DbSamples, js \in JsonSamples :
        fs = WithFiles(db, Absent, Absent, js, Absent, Absent)

\* a click on one of the four buttons: run_operation up to the confirmation
\* dialog, or up to worker.start() when no confirmation is asked
GuiRunOperation ==
  /\ prog = "window"
  /\ gui.buttons_enabled
  /\ gui.dialogs = <<>>
  /\ Len(gui.workers) < MaxWorkers
  /\ \E operation \in Operations :
       gui' = IF operation \in NeedsConfirm
              THEN [gui EXCEPT !.dialogs = <<"confirm">>, !.pending = operation]
              ELSE StartWorker(gui, operation)
  /\ UNCHANGED <<fs, prog, run, log, prev, perm, plat, arg, out>>

\* the answer to QMessageBox.question: run_operation returns on No and goes
\* on to start the worker on Yes
GuiConfirmAnswer ==
  /\ prog = "window"
  /\ gui.dialogs # <<>>
  /\ gui.dialogs[Len(gui.dialogs)] = "confirm"
  /\ \E yes \in BOOLEAN :
       \E g \in {[gui EXCEPT !.dialogs = SubSeq(@, 1, Len(@) - 1)]} :
          gui' = IF yes THEN StartWorker(g, gui.pending)
                 ELSE [g EXCEPT !.pending = "none"]
  /\ UNCHANGED <<fs, prog, run, log, prev, perm, plat, arg, out>>

\* WorkerThread.run: the operation, then finished.emit
GuiWorkerRun ==
  /\ prog = "window"
  /\ \E i \in DOMAIN gui.workers :
       /\ gui.workers[i].status = "running"
       /\ \E d \in WorkerDraws(gui.workers[i].operation), n \in FreshNonces(fs) :
            \E r \in {RunOperation(fs, gui.workers[i].operation, d[1], d[2], d[3], n)} :
               /\ fs' = r.fs
               /\ log' = r.calls
               /\ out' = Ran(gui.workers[i].operation, r.steps, r.ret)
               /\ gui' = [gui EXCEPT !.workers[i].status = "emitted"]
  /\ UNCHANGED <<prog, run, prev, perm, plat, arg>>

\* the queued finished signal of a worker is delivered to operation_finished
GuiOperationFinished ==
  /\ prog = "window"
  /\ \E i \in DOMAIN gui.workers :
       /\ gui.workers[i].status = "emitted"
       /\ gui' = operation_finished(gui, i)
  /\ UNCHANGED <<fs, prog, run, log, prev, perm, plat, arg, out>>

\* the user closes the information / critical box of operation_finished
GuiDismissResult ==
  /\ prog = "window"
  /\ gui.dialogs # <<>>
  /\ gui.dialogs[Len(gui.dialogs)] = "result"
  /\ gui' = [gui EXCEPT !.dialogs = SubSeq(@, 1, Len(@) - 1)]
  /\ UNCHANGED <<fs, prog, run, log, prev, perm, plat, arg, out>>

NextGui ==
  \/ GuiRunOperation
  \/ GuiConfirmAnswer
  \/ GuiWorkerRun
  \/ GuiOperationFinished
  \/ GuiDismissResult

SpecGui == InitGui /\ [][NextGui]_vars

\* a started QThread is scheduled and runs to its emit, and the event loop
\* of the main thread (which also runs under a modal box) delivers the
\* queued finished signal
FairGui == WF_vars(GuiWorkerRun) /\ WF_vars(GuiOperationFinished)

\* the window on a machine whose database holds nothing to remove and that
\* has no storage.json: cleaning succeeds, modifying the identifiers fails
InitGuiLive ==
  /\ InitGui
  /\ fs = WithFiles(Table(RowsOver({KeyOther})), Absent, Absent,
                    Absent, Absent, Absent)

SpecGuiLive == InitGuiLive /\ [][NextGui]_vars /\ FairGui

(***************************************************************************)
(* The identifier-file programs: id_modifier.modify_jetbrains_ids, the     *)
(* direct-ID-file branch of both update_vscode_files, and lock_file on its *)
(* own.  The files start unlocked or locked by an earlier run.             *)
(***************************************************************************)
Systems == {"Windows", "Linux", "Darwin"}

\* the modes an identifier file can have been left in on a platform
IdModes(system) ==
  IF system = "Darwin"
  THEN {NewFileMode(system), Mode({}, FALSE), Mode({}, TRUE)}
  ELSE {NewFileMode(system), Mode({}, FALSE)}

\* update_id_file meets no fault or a failing write_text
IdFaults == {ft \in FileFaults : ft.kind \in {"none", "write"} /\ ft.restore = "ok"}

\* chflags is run on macOS only; nothing is run after a missing command
LockDrawsOn(system) ==
  {lk \in LockDraws :
     /\ system # "Darwin" => lk.chflags = "ok"
     /\ lk.cmd = "missing" => (lk.chflags = "ok" /\ lk.chmod = "ok")}

InitIds ==
  /\ prog = "ids"
  /\ run = NoRun
  /\ log = <<>>
  /\ prev = <<>>
  /\ gui = NoGui
  /\ arg = <<>>
  /\ out = <<>>
  /\ plat \in Systems
  /\ \E idf \in IdSamples, idu \in IdSamples :
        fs = [WithFiles(Absent, Absent, Absent, Absent, idf, Absent) EXCEPT ![IDU] = idu]
  /\ perm \in [LockTargets -> IdModes(plat)]
  /\ \A p \in LockTargets : ~Exists(fs, p) => perm[p] = NewFileMode(plat)

IdsModifyJetbrainsIds ==
  /\ prog = "ids"
  /\ \E jetbrains_dir \in BOOLEAN,
        faults \in [1..2 -> IdFaults],
        lks \in [1..2 -> LockDrawsOn(plat)],
        ns \in [1..2 -> FreshNonces(fs)] :
       /\ ns[1] < ns[2]
       /\ ~jetbrains_dir =>
             /\ \A p \in LockTargets : ~Exists(fs, p)
             /\ \A i \in 1..2 : faults[i] = NoFault /\ lks[i].cmd = "ok" /\ lks[i].chmod = "ok"
       /\ \E r \in {modify_jetbrains_ids(fs, perm, plat, jetbrains_dir, faults, lks, ns)} :
             /\ fs' = r.fs
             /\ perm' = r.perm
             /\ log' = r.calls
  /\ UNCHANGED <<prog, run, prev, plat, gui, arg, out>>

IdsUpdateVscodeIdFile ==
  /\ prog = "ids"
  /\ \E fault \in IdFaults, lk \in LockDrawsOn(plat), n \in FreshNonces(fs) :
       \E r \in {ids_update_vscode_files_file(fs, perm, IDF, plat, fault, lk, n)} :
          /\ fs' = r.fs
          /\ perm' = r.perm
          /\ log' = r.calls
  /\ UNCHANGED <<prog, run, prev, plat, gui, arg, out>>

MultiUpdateVscodeIdFile ==
  /\ prog = "ids"
  /\ \E fault \in IdFaults, lk \in LockDrawsOn(plat), n \in FreshNonces(fs) :
       \E r \in {multi_update_vscode_files_file(fs, perm, IDF, plat, fault, lk, n)} :
          /\ fs' = r.fs
          /\ perm' = r.perm
          /\ log' = r.calls
  /\ UNCHANGED <<prog, run, prev, plat, gui, arg, out>>

\* lock_file called on a file in any state
IdsLockFile ==
  /\ prog = "ids"
  /\ \E p \in LockTargets, lk \in LockDrawsOn(plat) :
       \E l \in {lock_file(fs, perm, p, plat, lk)} :
          /\ perm' = l.perm
          /\ log' = <<IdCall("lock_file", p, "skipped", l, l.ret, l.perm)>>
  /\ UNCHANGED <<fs, prog, run, prev, plat, gui, arg, out>>

NextIds ==
  \/ IdsModifyJetbrainsIds
  \/ IdsUpdateVscodeIdFile
  \/ MultiUpdateVscodeIdFile
  \/ IdsLockFile

SpecIds == InitIds /\ [][NextIds]_vars

\* ---------------------------------------------------------------------
\* Locating the stores: which candidate roots exist decides what is found

\* platform.system() as the locator may see it
LocateSystems == Systems \cup {"FreeBSD"}

\* before any locator call
NoLocated == Located("none", "none", "ok", <<>>)

\* an environment: the platform, whether APPDATA is set, the roots that exist
InitLocate ==
  /\ prog = "locate"
  /\ run = NoRun
  /\ log = <<>>
  /\ prev = <<>>
  /\ gui = NoGui
  /\ fs = WithFiles(Absent, Absent, Absent, Absent, Absent, Absent)
  /\ perm = [p \in LockTargets |-> NewFileMode("Linux")]
  /\ plat \in LocateSystems
  /\ arg \in [existing : SUBSET AllRoots, appdata : BOOLEAN]
  /\ out = NoLocated

LocateDetectInstalledIdes ==
  /\ prog = "locate"
  /\ out' = Located("detect_installed_ides", "all", "ok",
                    detect_installed_ides(arg.existing, plat, arg.appdata))
  /\ UNCHANGED <<fs, prog, run, log, prev, perm, plat, gui, arg>>

LocateGetIdeBasePath ==
  /\ prog = "locate"
  /\ \E ide_key \in {"vscode", "intellij"} :
       out' = get_ide_base_path(ide_key, arg.existing, plat, arg.appdata)
  /\ UNCHANGED <<fs, prog, run, log, prev, perm, plat, gui, arg>>

LocateCoreGetVscodePaths ==
  /\ prog = "locate"
  /\ out' = core_get_vscode_paths(arg.existing, plat, arg.appdata)
  /\ UNCHANGED <<fs, prog, run, log, prev, perm, plat, gui, arg>>

NextLocate ==
  \/ LocateDetectInstalledIdes
  \/ LocateGetIdeBasePath
  \/ LocateCoreGetVscodePaths

SpecLocate == InitLocate /\ [][NextLocate]_vars

\* ---------------------------------------------------------------------
\* The term codec on its own: decoding seed lists, matching haystacks

\* the longest seed list drawn for _ENCODED_TERMS
MaxSeeds == 2

\* base64 seeds: "YXVnbWVudA==" ('augment'), "dmlw" ('vip'), and two that do
\* not decode: "YXVnb" (binascii.Error) and "/w==" (UnicodeDecodeError)
SeedSamples ==
  { <<89, 88, 86, 110, 98, 87, 86, 117, 100, 65, 61, 61>>,
    <<100, 109, 108, 119>>,
    <<89, 88, 86, 110, 98>>,
    <<47, 119, 61, 61>> }

\* the seed lists of length at most n
SeedLists(n) == UNION {[1..k -> SeedSamples] : k \in 0..n}

\* haystacks: a core in several letter cases or a near miss, bare or embedded
Haystacks ==
  {pre \o core \o post :
     pre \in {<<>>, <<120>>}, post \in {<<>>, <<95, 49>>},
     core \in {<<97, 117, 103, 109, 101, 110, 116>>,
               <<65, 85, 71, 77, 69, 78, 84>>,
               <<65, 117, 71, 109, 69, 110, 84>>,
               <<97, 117, 103, 109, 101, 110>>,
               <<97, 117, 103, 45, 109, 101, 110, 116>>,
               <<86, 105, 112>>,
               <<>>}}

\* term lists handed to _check_term_match besides the decoded ones
TermLists ==
  { <<>>,
    << <<65, 85, 71, 77, 69, 78, 84>> >>,
    << <<86, 73, 80>>, <<103, 109, 101, 110>> >> }

\* before any codec call
NoCodec == [op |-> "none", status |-> "ok", terms |-> <<>>, ret |-> FALSE]

InitCodec ==
  /\ prog = "codec"
  /\ run = NoRun
  /\ log = <<>>
  /\ prev = <<>>
  /\ gui = NoGui
  /\ fs = WithFiles(Absent, Absent, Absent, Absent, Absent, Absent)
  /\ perm = [p \in LockTargets |-> NewFileMode("Linux")]
  /\ plat = "Linux"
  /\ arg \in [config_keys : SeedLists(1), encoded_terms : SeedLists(MaxSeeds),
              text : Haystacks]
  /\ out = NoCodec

\* _decode_search_terms(): every raise is inside a try/except Exception
CodecDecode ==
  /\ prog = "codec"
  /\ out' = [op |-> "decode", status |-> "ok", ret |-> TRUE,
             terms |-> DecodeTerms(arg.config_keys, arg.encoded_terms)]
  /\ UNCHANGED <<fs, prog, run, log, prev, perm, plat, gui, arg>>

\* _check_term_match(text, terms) with the shipped terms, with the terms
\* decoded from the drawn seeds, or with a given list
CodecMatch ==
  /\ prog = "codec"
  /\ \E terms \in TermLists \cup {get_search_terms,
                                  DecodeTerms(arg.config_keys, arg.encoded_terms)} :
       out' = [op |-> "matches", status |-> "ok", terms |-> terms,
               ret |-> check_term_match(arg.text, terms)]
  /\ UNCHANGED <<fs, prog, run, log, prev, perm, plat, gui, arg>>

NextCodec ==
  \/ CodecDecode
  \/ CodecMatch

SpecCodec == InitCodec /\ [][NextCodec]_vars

\* ---------------------------------------------------------------------
\* Scan-mode discovery (get_vscode_files) and modify_vscode_ids over what
\* it found

\* the most entries matching a variant name in the first base directory
MaxEntries == 2

\* one directory of a base directory whose name holds a variant name:
\*   gs  its User/globalStorage: "absent", or a directory that is "empty",
\*       holds a storage.json that parses ("json") or one that does not ("junk")
\*   ws  its User/workspaceStorage: "absent", "ok" (readable, one workspace
\*       directory without storage.json) or "unreadable" (iterdir raises
\*       PermissionError)
Entries == [gs : {"absent", "empty", "json", "junk"}, ws : {"absent", "ok", "unreadable"}]

EntryLists(n) == UNION {[1..k -> Entries] : k \in 0..n}

\* a base directory: missing, not listable, or listed in iterdir order
BaseDirs(n) ==
  {[state |-> "absent", entries |-> <<>>], [state |-> "unreadable", entries |-> <<>>]}
    \cup {[state |-> "ok", entries |-> es] : es \in EntryLists(n)}

\* `for entry in base_dir.iterdir():` from entry e on, inside the try of
\* base directory b; acc is what this base directory appended so far
RECURSIVE ScanEntries(_, _, _, _)
ScanEntries(b, entries, e, acc) ==
  IF e > Len(entries) THEN acc
  ELSE LET global == IF entries[e].gs # "absent"
                     THEN << <<b, e, "globalStorage">> >> ELSE <<>>
       IN IF entries[e].ws = "unreadable"
          THEN \* workspace_base.iterdir() raises: except PermissionError:
               \* continue with the next base_dir
               acc \o global
          ELSE ScanEntries(b, entries, e + 1,
                           acc \o global \o
                             (IF entries[e].ws = "ok"
                              THEN << <<b, e, "workspace">> >> ELSE <<>>))

\* multi_ide_modifier.get_vscode_files
get_vscode_files(bases) ==
  Flatten([b \in 1..Len(bases) |->
             IF bases[b].state # "ok"
             THEN \* not base_dir.exists(), or base_dir.iterdir() raises
                  <<>>
             ELSE ScanEntries(b, bases[b].entries, 1, <<>>)])

\* what is in a discovered directory
DirStorage(bases, d) ==
  IF d[3] = "globalStorage" THEN bases[d[1]].entries[d[2]].gs ELSE "empty"

\* id_modifier.update_vscode_files on a discovered directory:
\* [ret, rewritten]
ids_update_vscode_files_dir(storage, fault) ==
  IF storage = "json"
  THEN IF fault = "write"
       THEN [ret |-> "False", rewritten |-> FALSE]
       ELSE [ret |-> "True", rewritten |-> TRUE]
  ELSE IF storage = "junk"
       THEN \* json.load raises
            [ret |-> "False", rewritten |-> FALSE]
       ELSE \* neither storage.json nor a file: the final return True
            [ret |-> "True", rewritten |-> FALSE]

\* what a scan call hands back
Scanned(op, dirs, counted, rewritten, ret) ==
  [op |-> op, status |-> "ok", dirs |-> dirs, counted |-> counted,
   rewritten |-> rewritten, ret |-> ret]

\* id_modifier.modify_vscode_ids: counted[i] tells whether vscode_dirs[i]
\* was added to success_count
modify_vscode_ids(bases, fault) ==
  Only({IF vscode_dirs = <<>>
        THEN Scanned("modify_vscode_ids", <<>>, <<>>, <<>>, "False")
        ELSE Only({Scanned("modify_vscode_ids", vscode_dirs,
                           [i \in DOMAIN us |-> us[i].ret = "True"],
                           [i \in DOMAIN us |-> us[i].rewritten],
                           IF \E i \in DOMAIN us : us[i].ret = "True"
                           THEN "True" ELSE "False") :
                   us \in {[i \in DOMAIN vscode_dirs |->
                              ids_update_vscode_files_dir(
                                DirStorage(bases, vscode_dirs[i]), fault)]}}) :
        vscode_dirs \in {get_vscode_files(bases)}})

NoScan == Scanned("none", <<>>, <<>>, <<>>, "False")

InitScan ==
  /\ prog = "scan"
  /\ run = NoRun
  /\ log = <<>>
  /\ prev = <<>>
  /\ gui = NoGui
  /\ fs = WithFiles(Absent, Absent, Absent, Absent, Absent, Absent)
  /\ perm = [p \in LockTargets |-> NewFileMode("Linux")]
  /\ plat = "Linux"
  /\ \E b1 \in BaseDirs(MaxEntries), b2 \in BaseDirs(1) : arg = <<b1, b2>>
  /\ out = NoScan

ScanGetVscodeFiles ==
  /\ prog = "scan"
  /\ out' = Scanned("get_vscode_files", get_vscode_files(arg), <<>>, <<>>, "True")
  /\ UNCHANGED <<fs, prog, run, log, prev, perm, plat, gui, arg>>

ScanModifyVscodeIds ==
  /\ prog = "scan"
  /\ \E fault \in {"none", "write"} : out' = modify_vscode_ids(arg, fault)
  /\ UNCHANGED <<fs, prog, run, log, prev, perm, plat, gui, arg>>

NextScan ==
  \/ ScanGetVscodeFiles
  \/ ScanModifyVscodeIds

SpecScan == InitScan /\ [][NextScan]_vars

(***************************************************************************)
(* Properties                                                              *)
(***************************************************************************)
\* the in-place writes, deletes and truncations of its store made by a call
InPlaceWrites(call) ==
  {k \in DOMAIN call.ev : call.ev[k].op \in {"write", "unlink"} /\ call.ev[k].path = call.path}

BackupTakenAt(call) == {j \in DOMAIN call.ev : call.ev[j] = Ev("backup", call.path)}

RestoreAttemptsAt(call) ==
  {k \in DOMAIN call.ev : call.ev[k].op \in {"restore", "restore_failed"}}

Failed(call) == call.ret # "True"

\* the store was there when the call started and was taken away under it
Vanished(call) ==
  /\ ~call.missing
  /\ call.after = Absent
  /\ \A k \in DOMAIN call.ev : call.ev[k].op # "unlink"

\* C1: in every call, each in-place write, delete or truncation of the store
\* is preceded by the copy of the store to <path>.backup.
C1_BackupPrecedesWrite ==
  \A i \in DOMAIN log :
     \A k \in InPlaceWrites(log[i]) : \E j \in BackupTakenAt(log[i]) : j < k

\* C2: a call that reports failure leaves the store with the bytes it had
\* when the call started (the store being taken away by another process, and
\* a restore that itself fails, set aside).
C2_FailureLeavesStoreAsBefore ==
  \A i \in DOMAIN log :
     (/\ Failed(log[i])
      /\ ~Vanished(log[i])
      /\ \A k \in DOMAIN log[i].ev : log[i].ev[k].op # "restore_failed")
     => log[i].after = log[i].before

\* C3: a call that fails after its backup was taken attempts to copy the
\* backup back over the store before it returns.
C3_RestoreAttemptedOnError ==
  \A i \in DOMAIN log :
     (Failed(log[i]) /\ BackupTakenAt(log[i]) # {})
     => \E j \in BackupTakenAt(log[i]), k \in RestoreAttemptsAt(log[i]) : j < k

\* C4: when the `clean --auto` process ends, every detected IDE has been
\* attempted: no failure while processing one of them stops the run.
C4_FailureNeverStopsRun ==
  run.status \in {"done", "aborted"} => \A i \in 1..Len(run.queue) : i < run.idx

GuardedOps ==
  {"clean_vscode_based_ide", "clean_jetbrains_xml_file",
   "core_clean_vscode_database", "core_modify_telemetry_ids"}

\* C5: a guarded operation whose store is missing when it starts, or is gone
\* when the backup is to be taken, returns failure to its caller, creates no
\* backup file and does not end the process.
C5_MissingStoreIsAFailure ==
  \A i \in DOMAIN log :
     (log[i].op \in GuardedOps /\ (log[i].missing \/ Vanished(log[i])))
     => /\ log[i].ret = "False"
        /\ log[i].bak_after = log[i].bak_before

\* C6: a `clean --auto` process that ends with exit status 1 has no
\* successful IDE.
C6_ExitFailureOnlyIfAllFailed ==
  (run.status \in {"done", "aborted"} /\ run.exit = 1) => run.success_count = 0

\* C7 as stated: a call that finds its store missing never has a failed
\* outcome.
C7_NotFoundNeverFails ==
  \A i \in DOMAIN log : log[i].missing => log[i].ret = "True"

AbsorbingOps == {"multi_clean_vscode_database", "multi_update_vscode_files"}

\* C7, amended: a call that finds its store missing takes no backup and
\* writes nothing; multi_ide_modifier's clean_vscode_database and
\* update_vscode_files report success, the guarded operations of db_cleaner
\* and core_functions report failure.
C7_MissingStoreOutcome ==
  \A i \in DOMAIN log :
     (log[i].missing /\ log[i].op \in (AbsorbingOps \cup GuardedOps))
     => /\ log[i].ev = <<>>
        /\ log[i].after = Absent
        /\ log[i].bak_after = log[i].bak_before
        /\ log[i].ret = IF log[i].op \in AbsorbingOps THEN "True" ELSE "False"

C7_Witness ==
  \E i \in DOMAIN log :
     log[i].missing /\ log[i].op = "clean_vscode_based_ide" /\ log[i].ret = "False"

TabularPurgeOps ==
  {"clean_vscode_based_ide", "core_clean_vscode_database", "multi_clean_vscode_database"}

\* the keys k of rows with matches(k, MatchTermSet)
MatchingKeys(rows) == {k \in DOMAIN rows : check_term_match(k, get_search_terms)}

\* C8: a successful tabular purge deletes exactly the rows whose key
\* contains a term of the MatchTermSet (case-insensitively), keeps every
\* other row as it was, and reports the number of rows deleted.
C8_TabularPurgeExact ==
  \A i \in DOMAIN log :
     (log[i].op \in TabularPurgeOps /\ IsDb(log[i].before) /\ log[i].ret = "True")
     => /\ log[i].after = Table(DeleteRows(log[i].before.rows, MatchingKeys(log[i].before.rows)))
        /\ log[i].removed = Cardinality(MatchingKeys(log[i].before.rows))

IdempotentOps == {"clean_vscode_based_ide", "clean_jetbrains_xml_file"}

\* C9: the second of two purges in succession on the same store removes
\* nothing and leaves the content the first one left.
C9_PurgeIdempotent ==
  (/\ Len(prev) = 1
   /\ Len(log) = 1
   /\ prev[1].op = log[1].op
   /\ log[1].op \in IdempotentOps)
  => /\ log[1].removed = 0
     /\ log[1].after = log[1].before

PurgeOps == TabularPurgeOps \cup {"clean_jetbrains_xml_file"}

\* C10: a purge that finds nothing to remove (success with a count of zero)
\* does not write the store, whose content is what it was before the call.
C10_NoOpPurgeUntouched ==
  \A i \in DOMAIN log :
     (log[i].op \in PurgeOps /\ log[i].ret = "True" /\ log[i].removed = 0)
     => /\ InPlaceWrites(log[i]) = {}
        /\ log[i].after = log[i].before

C10_Witness ==
  \E i \in DOMAIN log :
     /\ log[i].op = "clean_jetbrains_xml_file"
     /\ log[i].ret = "True"
     /\ log[i].removed = 0
     /\ IsXml(log[i].before)
     /\ Cardinality(DOMAIN log[i].before.nodes) = MaxNodes

(***************************************************************************)
(* Regenerate on document stores                                           *)
(***************************************************************************)
RegenerateOps ==
  {"core_modify_telemetry_ids", "multi_update_vscode_files", "legacy_modify_telemetry_ids"}

\* the field plan of each regenerate operation
PlannedFields(op) ==
  IF op = "multi_update_vscode_files"
  THEN {"telemetry.machineId", "telemetry.devDeviceId", "telemetry.macMachineId"}
  ELSE {"telemetry.machineId", "telemetry.devDeviceId"}

\* a successful regenerate of a document that is a JSON object
RegeneratedDoc(call) ==
  /\ call.op \in RegenerateOps
  /\ call.ret = "True"
  /\ call.before.kind = "json"
  /\ call.after.kind = "json"

\* C11 as stated: regenerate never adds a field, the keys of the document
\* after it are the keys before it.
C11_RegenerateKeepsKeySet ==
  \A i \in DOMAIN log :
     RegeneratedDoc(log[i]) => DOMAIN log[i].after.doc = DOMAIN log[i].before.doc

\* C11, amended: regenerate assigns every planned field, so the keys of the
\* document after it are the keys before it together with the planned
\* field names; no other key is added and none is dropped.
C11_RegenerateAddsPlannedFields ==
  \A i \in DOMAIN log :
     RegeneratedDoc(log[i])
     => DOMAIN log[i].after.doc = DOMAIN log[i].before.doc \cup PlannedFields(log[i].op)

C11_Witness ==
  \E i \in DOMAIN log :
     /\ RegeneratedDoc(log[i])
     /\ log[i].op = "core_modify_telemetry_ids"
     /\ "telemetry.machineId" \notin DOMAIN log[i].before.doc
     /\ "telemetry.machineId" \in DOMAIN log[i].after.doc

\* C12: a successful regenerate leaves the value under every key that is
\* not a planned field as it was, and replaces the value under every planned
\* field the document had by a value different from the old one.
C12_UnplannedFieldsPreserved ==
  \A i \in DOMAIN log :
     RegeneratedDoc(log[i])
     => /\ \A k \in DOMAIN log[i].before.doc \ PlannedFields(log[i].op) :
              /\ k \in DOMAIN log[i].after.doc
              /\ log[i].after.doc[k] = log[i].before.doc[k]
        /\ \A k \in DOMAIN log[i].before.doc \cap PlannedFields(log[i].op) :
              /\ k \in DOMAIN log[i].after.doc
              /\ log[i].after.doc[k] # log[i].before.doc[k]

C12_Witness ==
  \E i \in DOMAIN log :
     /\ RegeneratedDoc(log[i])
     /\ log[i].op = "core_modify_telemetry_ids"
     /\ {"telemetry.machineId", "other"} \subseteq DOMAIN log[i].before.doc
     /\ log[i].before.doc["telemetry.machineId"].fmt = "hex64"

\* C15: no call deletes or edits a <path>.backup file: the only change a
\* call makes to the backup of its store is the byte copy of the store taken
\* at the start of a guarded mutation.
C15_BackupFilesAreOpaque ==
  \A i \in DOMAIN log :
     log[i].bak_after # log[i].bak_before
     => /\ BackupTakenAt(log[i]) # {}
        /\ log[i].bak_after = log[i].before

(***************************************************************************)
(* Identifier files and the file lock                                      *)
(***************************************************************************)
\* C13: an identifier file that was rewritten and could not be locked is
\* still reported as a success by the operation (returned True, or counted
\* in success_count).
C13_LockFailureIsSoft ==
  \A i \in DOMAIN log :
     (log[i].updated = "True" /\ log[i].locked = "False") => log[i].ret = "True"

\* C14: lock_file returns a boolean whatever the state of the file; it
\* returns False when the final permission change could not be applied;
\* when it returns True the file has none of its write bits left.
C14_LockReturnsBooleanAndClearsWriteBits ==
  \A i \in DOMAIN log :
     log[i].locked # "skipped"
     => /\ log[i].locked \in {"True", "False"}
        /\ log[i].denied => log[i].locked = "False"
        /\ ~Exists(fs, log[i].path) => log[i].locked = "False"
        /\ log[i].locked = "True" => log[i].mode.w = {}

C14_Witness ==
  \E i \in DOMAIN log :
     /\ log[i].op = "lock_file"
     /\ log[i].locked = "True"
     /\ log[i].mode.w = {}
     /\ plat = "Windows"

(***************************************************************************)
(* The GUI's worker threads                                                *)
(***************************************************************************)
\* the workers started whose finished signal has not been handled yet
Unhandled(g) == {i \in DOMAIN g.workers : g.workers[i].status # "handled"}

\* C16: from the start of a worker until its finished signal has been
\* handled the buttons are disabled and no second worker is started: at most
\* one worker is unhandled at any time.
C16_OneWorkerAtATime ==
  /\ Cardinality(Unhandled(gui)) <= 1
  /\ Unhandled(gui) # {} => ~gui.buttons_enabled

C16_Witness ==
  /\ Len(gui.workers) = MaxWorkers
  /\ gui.workers[1].status = "handled"
  /\ gui.workers[MaxWorkers].status = "running"
  /\ gui.workers[MaxWorkers].operation = "run_all_operations"

\* the positions of a locator result that belong to one descriptor
Hits(ide_key) == {j \in DOMAIN out.found : out.found[j][1] = ide_key}

\* C17: locating the stores of one descriptor yields a single base, the
\* first candidate root in list order that exists; a later candidate that
\* also exists is never returned as well
C17_FirstExistingRootOnly ==
  out.op \in {"detect_installed_ides", "get_ide_base_path"} =>
    \A k \in {"vscode", "intellij"} :
       /\ Cardinality(Hits(k)) <= 1
       /\ \A j \in Hits(k) :
            /\ out.found[j][2] \in arg.existing
            /\ out.found[j][2][1] = k
            /\ \A i \in 1..(out.found[j][2][2] - 1) : <<k, i>> \notin arg.existing
       /\ ( /\ out.op = "detect_installed_ides"
            /\ plat \in Systems
            /\ plat = "Windows" => arg.appdata
            /\ \E i \in 1..3 : <<k, i>> \in arg.existing ) => Hits(k) # {}

\* two later candidates exist and the first does not: the second is the base
C17_Witness ==
  /\ out.op = "detect_installed_ides"
  /\ <<"intellij", 1>> \notin arg.existing
  /\ {<<"intellij", 2>>, <<"intellij", 3>>} \subseteq arg.existing
  /\ \E j \in DOMAIN out.found : out.found[j] = <<"intellij", <<"intellij", 2>>>>

SameLetter(a, b) ==
  \/ a = b
  \/ a \in 65..90 /\ b = a + 32
  \/ a \in 97..122 /\ b = a - 32

\* needle occurs in hay at some offset, letter case ignored
OccursIgnoringCase(hay, needle) ==
  \E off \in 0..(Len(hay) - Len(needle)) :
     \A j \in 1..Len(needle) : SameLetter(hay[off + j], needle[j])

\* C19: matches(haystack, terms) is true exactly when the haystack is
\* non-empty and contains, letter case ignored, at least one of the terms
C19_MatchesIffContainsIgnoringCase ==
  out.op = "matches" =>
    (out.ret <=> /\ arg.text # <<>>
                 /\ \E i \in DOMAIN out.terms : OccursIgnoringCase(arg.text, out.terms[i]))

\* the decoded seed literal 'augment' in mixed case, embedded, is matched by
\* the shipped terms
C19_Witness ==
  /\ out.op = "matches"
  /\ out.terms = get_search_terms
  /\ arg.text = <<120, 65, 117, 71, 109, 69, 110, 84, 95, 49>>
  /\ out.ret

\* what the seeds that decode must contribute: the literal in its four case
\* variants and, for a literal of more than three characters, the five
\* derived forms
ExpectedTerms(seed) ==
  IF seed = <<89, 88, 86, 110, 98, 87, 86, 117, 100, 65, 61, 61>>
  THEN {<<97, 117, 103, 109, 101, 110, 116>>,
        <<65, 85, 71, 77, 69, 78, 84>>,
        <<65, 117, 103, 109, 101, 110, 116>>,
        <<97, 117, 103, 109, 101, 110, 116, 115>>,
        <<97, 117, 103, 109, 101, 110, 116, 101, 100>>,
        <<97, 117, 103, 109, 101, 110, 116, 105, 110, 103>>,
        <<65, 117, 103, 109, 101, 110, 116, 86, 73, 80>>,
        <<65, 85, 71, 77, 69, 78, 84, 95>>}
  ELSE IF seed = <<100, 109, 108, 119>>
  THEN {<<118, 105, 112>>, <<86, 73, 80>>, <<86, 105, 112>>}
  ELSE {}

\* the seeds handed to the decoder
SeedsGiven ==
  {arg.config_keys[i] : i \in DOMAIN arg.config_keys}
    \cup {arg.encoded_terms[i] : i \in DOMAIN arg.encoded_terms}

\* C20: decoding never fails as a whole: a seed that cannot be decoded is
\* skipped, and the terms of every other seed are in the returned set, which
\* holds nothing else
C20_UndecodableSeedIsSkipped ==
  out.op = "decode" =>
    /\ out.status = "ok"
    /\ {out.terms[i] : i \in DOMAIN out.terms} = UNION {ExpectedTerms(s) : s \in SeedsGiven}

\* a seed that does not decode stood before one that does
C20_Witness ==
  /\ out.op = "decode"
  /\ arg.encoded_terms = << <<47, 119, 61, 61>>, <<100, 109, 108, 119>> >>
  /\ arg.config_keys = << <<89, 88, 86, 110, 98>> >>
  /\ Len(out.terms) = 3

(***************************************************************************)
(* Tree purge                                                              *)
(***************************************************************************)
\* the calls of the tree purge on a store that parses
TreePurgeCall(call) ==
  call.op = "clean_jetbrains_xml_file" /\ IsXml(call.before)

\* C21: after a tree purge that completed, no node that has a parent is
\* flagged any more (direct text or an attribute value matches), at whatever
\* depth, and the count reported is the number of flagged nodes taken out.
C21_TreePurgeRemovesFlagged ==
  \A i \in DOMAIN log :
     (TreePurgeCall(log[i]) /\ log[i].ret = "True")
     => /\ IsXml(log[i].after)
        /\ \A n \in DOMAIN log[i].after.nodes :
              log[i].after.nodes[n].parent # 0
              => ~Flagged(log[i].after.nodes, n, get_search_terms)
        /\ log[i].removed =
             Cardinality({n \in FlaggedSet(log[i].before.nodes, get_search_terms) :
                            /\ n \notin DOMAIN log[i].after.nodes
                            /\ \A a \in FlaggedSet(log[i].before.nodes, get_search_terms) :
                                  ~IsAncestor(log[i].before.nodes, a, n)})

\* the options of a recent list whose value matches: under RecentFiles, or
\* named projectPath under RecentProjectMetaInfo
RecentEntries(t) ==
  {o \in DOMAIN t :
     /\ t[o].tag = "option"
     /\ ValueMatches(t, o, get_search_terms)
     /\ \E a \in DOMAIN t :
           /\ IsAncestor(t, a, o)
           /\ \/ t[a].tag = "RecentFiles"
              \/ /\ t[a].tag = "RecentProjectMetaInfo"
                 /\ HasAttr(t, o, "name")
                 /\ t[o].attrs["name"] = ProjectPathLiteral}

\* C22: a tree purge of a store holding a matching recent-project or
\* recent-file entry ends in success, with the entry gone and counted.
C22_RecentEntriesPurged ==
  \A i \in DOMAIN log :
     (TreePurgeCall(log[i]) /\ RecentEntries(log[i].before.nodes) # {})
     => /\ log[i].ret = "True"
        /\ log[i].removed >= 1
        /\ IsXml(log[i].after)
        /\ RecentEntries(log[i].before.nodes) \cap DOMAIN log[i].after.nodes = {}

\* C23: every tabular purge path deletes a row if and only if the shared
\* matcher holds of its key: the selection of the SQL (the LIKE clause built
\* from the term list, the fixed '%augment%' queries) is that of
\* matches(key, MatchTermSet).
C23_OneDefinitionOfSensitive ==
  \A i \in DOMAIN log :
     (log[i].op \in TabularPurgeOps /\ IsDb(log[i].before) /\ log[i].ret = "True")
     => /\ IsDb(log[i].after)
        /\ \A k \in DOMAIN log[i].before.rows :
              (k \notin DOMAIN log[i].after.rows) <=> check_term_match(k, get_search_terms)

(***************************************************************************)
(* update_vscode_files and modify_vscode_ids                               *)
(***************************************************************************)
\* C27: update_vscode_files returns False whenever the update of its target
\* failed, in both implementations: here, whenever update_id_file could not
\* rewrite the direct ID file.
C27_FailedUpdateReturnsFalse ==
  \A i \in DOMAIN log :
     (/\ log[i].op \in {"ids_update_vscode_files", "multi_update_vscode_files"}
      /\ log[i].updated = "False")
     => log[i].ret = "False"

\* the positions of a discovered directory in a scan result
InDirs(d) == \E i \in DOMAIN out.dirs : out.dirs[i] = d

\* C24: a permission error while listing a directory never escapes
\* discovery and only that directory is skipped: every store under a
\* readable directory is returned.
C24_UnreadableDirectorySkippedAlone ==
  out.op = "get_vscode_files" =>
    /\ out.status = "ok"
    /\ \A b \in DOMAIN arg :
          arg[b].state = "ok" =>
            \A e \in DOMAIN arg[b].entries :
               /\ arg[b].entries[e].gs # "absent" => InDirs(<<b, e, "globalStorage">>)
               /\ arg[b].entries[e].ws = "ok" => InDirs(<<b, e, "workspace">>)

\* C30: modify_vscode_ids counts a discovered directory only if a
\* storage.json or ID file in it was rewritten, and returns True only if
\* some directory was rewritten.
C30_CountedOnlyIfRewritten ==
  out.op = "modify_vscode_ids" =>
    /\ \A i \in DOMAIN out.dirs : out.counted[i] => out.rewritten[i]
    /\ out.ret = "True" => \E i \in DOMAIN out.dirs : out.rewritten[i]

(***************************************************************************)
(* Derived forms                                                           *)
(***************************************************************************)
\* the seed "YXVnbWVudA==", whose literal 'augment' is longer than three
SeedAugment == <<89, 88, 86, 110, 98, 87, 86, 117, 100, 65, 61, 61>>

\* the forms derived from the lower-cased literal of SeedAugment
FormsOfLowercase ==
  {<<97, 117, 103, 109, 101, 110, 116, 115>>,
   <<97, 117, 103, 109, 101, 110, 116, 101, 100>>,
   <<97, 117, 103, 109, 101, 110, 116, 105, 110, 103>>,
   <<65, 117, 103, 109, 101, 110, 116, 86, 73, 80>>,
   <<65, 85, 71, 77, 69, 78, 84, 95>>}

\* the suffixed forms of its upper-cased and capitalized variants
FormsOfOtherVariants ==
  {<<65, 85, 71, 77, 69, 78, 84, 115>>,
   <<65, 85, 71, 77, 69, 78, 84, 101, 100>>,
   <<65, 85, 71, 77, 69, 78, 84, 105, 110, 103>>,
   <<65, 117, 103, 109, 101, 110, 116, 115>>,
   <<65, 117, 103, 109, 101, 110, 116, 101, 100>>,
   <<65, 117, 103, 109, 101, 110, 116, 105, 110, 103>>}

TermSet == {out.terms[i] : i \in DOMAIN out.terms}

NoDuplicates == \A i, j \in DOMAIN out.terms : i # j => out.terms[i] # out.terms[j]

C26_BackupIsOfLatestRun ==
  \A i \in DOMAIN log :
     BackupTakenAt(log[i]) # {}
     => /\ log[i].bak_after = log[i].before
        /\ log[i].before # Absent

\* a backup left by an earlier run, of other content, was replaced
C26_Witness ==
  \E i \in DOMAIN log :
     /\ log[i].op \in GuardedOps
     /\ BackupTakenAt(log[i]) # {}
     /\ log[i].bak_before # Absent
     /\ log[i].bak_before # log[i].before
     /\ log[i].bak_after = log[i].before

(***************************************************************************)
(* run_all_operations                                                      *)
(***************************************************************************)
\* C28: run_all_operations runs close VS Code, clean database, modify
\* telemetry IDs in that order, runs each whatever the earlier ones
\* returned, and succeeds exactly when all three did.
C28_ThreeStepsInOrder ==
  out.operation = "run_all_operations" =>
    /\ [i \in DOMAIN out.steps |-> out.steps[i].op]
         = <<"close_vscode", "clean_vscode_database", "modify_telemetry_ids">>
    /\ out.ret = "True" <=> \A i \in DOMAIN out.steps : out.steps[i].ret = "True"

\* the first step failed and the two later ones ran, the last with success
C28_Witness ==
  /\ out.operation = "run_all_operations"
  /\ Len(out.steps) = 3
  /\ out.steps[1].ret = "False"
  /\ out.steps[3].ret = "True"
  /\ out.ret = "False"

(***************************************************************************)
(* Completion of GUI operations                                            *)
(***************************************************************************)
\* C29: every operation started through run_operation completes: its
\* worker emits finished and the signal is handled, and once no worker is
\* outstanding the buttons are enabled and the progress bar hidden, so the
\* window does not stay in the disabled 'working' state.
C29_StartedOperationCompletes ==
  /\ [](Unhandled(gui) = {} => gui.buttons_enabled /\ ~gui.progress)
  /\ (Unhandled(gui) # {}) ~> (Unhandled(gui) = {})

\* an operation that failed was handled and the window is usable again
C29_Witness ==
  /\ gui.workers # <<>>
  /\ \A i \in DOMAIN gui.workers : gui.workers[i].status = "handled"
  /\ out.operation # "none"
  /\ out.ret = "False"
  /\ gui.buttons_enabled
  /\ ~gui.progress

====
